---- MODULE Spec2Model ----
(***************************************************************************)
(* Chart generation pipeline of AIDiagramGenearation: the generate route   *)
(* of the server (request validation, extraction-service call, JSON        *)
(* recovery, per-type schema validation) and the client hook               *)
(* useChartGenerator driven by the Home page.                              *)
(*                                                                         *)
(* Text is a sequence of characters; a character is a one-character        *)
(* string, except Tick, which stands for the backquote character.          *)
(***************************************************************************)
EXTENDS Integers, Sequences, FiniteSets, TLC

(***************************************************************************)
(* Bounds of the model.                                                    *)
(***************************************************************************)
MaxTasks == 2        \* longest task list of a generated Gantt payload
MaxItems == 2        \* longest array of the generic JSON sample values
MaxRequests == 3     \* generateChart invocations of one hook session
MaxSaves == 2        \* createChart calls on one store
MaxCategories == 6   \* distinct categories of one chart
MaxPointers == 2     \* pointers (mouse, touches) that drag at the same time

(***************************************************************************)
(* JSON values.  An object is a function from keys (texts) to values, so   *)
(* that equality of values is deep equality.                               *)
(***************************************************************************)
JNull == [k |-> "null"]
JBool(b) == [k |-> "bool", b |-> b]
JNum(n) == [k |-> "num", n |-> n]
JStr(s) == [k |-> "str", s |-> s]
JArr(a) == [k |-> "arr", a |-> a]
JObj(f) == [k |-> "obj", f |-> f]

Tick == "tick"
Quote == "\""
Backslash == "\\"
Newline == "\n"

kTitle == <<"t","i","t","l","e">>
kTasks == <<"t","a","s","k","s">>
kId == <<"i","d">>
kName == <<"n","a","m","e">>
kStart == <<"s","t","a","r","t">>
kEnd == <<"e","n","d">>
kDependencies == <<"d","e","p","e","n","d","e","n","c","i","e","s">>
kCategory == <<"c","a","t","e","g","o","r","y">>
kData == <<"d","a","t","a">>
kLabel == <<"l","a","b","e","l">>
kValue == <<"v","a","l","u","e">>
kColor == <<"c","o","l","o","r">>
kXAxisLabel == <<"x","A","x","i","s","L","a","b","e","l">>
kYAxisLabel == <<"y","A","x","i","s","L","a","b","e","l">>
kNodes == <<"n","o","d","e","s">>
kLinks == <<"l","i","n","k","s">>
kSource == <<"s","o","u","r","c","e">>
kTarget == <<"t","a","r","g","e","t">>
kExtra == <<"z">>
kPrompt == <<"p","r","o","m","p","t">>
kChartType == <<"c","h","a","r","t","T","y","p","e">>

\* Order in which the keys of an object are written by Stringify.
KeyOrder ==
  << kTitle, kXAxisLabel, kYAxisLabel, kTasks, kData, kNodes, kLinks, kId, kName,
     kStart, kEnd, kDependencies, kCategory, kLabel, kValue, kColor, kSource, kTarget,
     kExtra >>

Digits == <<"0","1","2","3","4","5","6","7","8","9">>

DigitValue(c) == CHOOSE d \in 0..9 : Digits[d + 1] = c

IsDigit(c) == \E d \in 1..10 : Digits[d] = c

RECURSIVE NatText(_)
NatText(n) ==
  IF n < 10 THEN << Digits[n + 1] >>
  ELSE NatText(n \div 10) \o << Digits[(n % 10) + 1] >>

NumText(n) == IF n < 0 THEN <<"-">> \o NatText(0 - n) ELSE NatText(n)

RECURSIVE QuoteChars(_)
QuoteChars(s) ==
  IF s = <<>> THEN <<>>
  ELSE LET c == Head(s)
       IN (CASE c = Quote -> << Backslash, Quote >>
             [] c = Backslash -> << Backslash, Backslash >>
             [] c = Newline -> << Backslash, "n" >>
             [] OTHER -> << c >>) \o QuoteChars(Tail(s))

QuoteText(s) == << Quote >> \o QuoteChars(s) \o << Quote >>

KeysInOrder(f) == SelectSeq(KeyOrder, LAMBDA key : key \in DOMAIN f)

RECURSIVE Stringify(_)
RECURSIVE StringifyItems(_)
RECURSIVE StringifyMembers(_, _)
\* JSON.stringify of a JSON value, without indentation.
Stringify(v) ==
  CASE v.k = "null" -> <<"n","u","l","l">>
    [] v.k = "bool" -> IF v.b THEN <<"t","r","u","e">> ELSE <<"f","a","l","s","e">>
    [] v.k = "num" -> NumText(v.n)
    [] v.k = "str" -> QuoteText(v.s)
    [] v.k = "arr" -> <<"[">> \o StringifyItems(v.a) \o <<"]">>
    [] v.k = "obj" -> <<"{">> \o StringifyMembers(v.f, KeysInOrder(v.f)) \o <<"}">>

StringifyItems(a) ==
  IF a = <<>> THEN <<>>
  ELSE Stringify(Head(a))
       \o (IF Len(a) > 1 THEN <<",">> ELSE <<>>)
       \o StringifyItems(Tail(a))

StringifyMembers(f, keys) ==
  IF keys = <<>> THEN <<>>
  ELSE QuoteText(Head(keys)) \o <<":">> \o Stringify(f[Head(keys)])
       \o (IF Len(keys) > 1 THEN <<",">> ELSE <<>>)
       \o StringifyMembers(f, Tail(keys))

\* The text wrapped in a ```json fenced code block.
Fenced(t) ==
  << Tick, Tick, Tick, "j", "s", "o", "n", Newline >> \o t
  \o << Newline, Tick, Tick, Tick >>

(***************************************************************************)
(* JSON.parse: a recursive-descent parser over the text.  A parse result   *)
(* is [ok |-> TRUE, v |-> value, i |-> next position] or [ok |-> FALSE].   *)
(***************************************************************************)
ParseFail == [ok |-> FALSE]

IsWs(c) == c \in {" ", Newline}

RECURSIVE SkipWs(_, _)
SkipWs(t, i) == IF i <= Len(t) /\ IsWs(t[i]) THEN SkipWs(t, i + 1) ELSE i

HasLiteral(t, i, lit) ==
  /\ i + Len(lit) - 1 <= Len(t)
  /\ SubSeq(t, i, i + Len(lit) - 1) = lit

RECURSIVE ParseDigits(_, _, _)
ParseDigits(t, i, acc) ==
  IF i <= Len(t) /\ IsDigit(t[i])
  THEN ParseDigits(t, i + 1, acc * 10 + DigitValue(t[i]))
  ELSE [ok |-> TRUE, v |-> acc, i |-> i]

\* -?(0|[1-9][0-9]*): the integer part of the JSON number grammar.
ParseNat(t, i) ==
  IF i > Len(t) \/ ~IsDigit(t[i]) THEN ParseFail
  ELSE IF t[i] = "0" THEN [ok |-> TRUE, v |-> 0, i |-> i + 1]
  ELSE ParseDigits(t, i, 0)

ParseNumber(t, i) ==
  IF t[i] = "-"
  THEN LET r == ParseNat(t, i + 1)
       IN IF r.ok THEN [ok |-> TRUE, v |-> JNum(0 - r.v), i |-> r.i] ELSE ParseFail
  ELSE LET r == ParseNat(t, i)
       IN IF r.ok THEN [ok |-> TRUE, v |-> JNum(r.v), i |-> r.i] ELSE ParseFail

RECURSIVE ParseChars(_, _, _)
\* The characters of a string literal, from the position after its opening quote.
ParseChars(t, i, acc) ==
  IF i > Len(t) THEN ParseFail
  ELSE IF t[i] = Quote THEN [ok |-> TRUE, v |-> acc, i |-> i + 1]
  ELSE IF t[i] = Newline THEN ParseFail
  ELSE IF t[i] = Backslash
       THEN IF i + 1 > Len(t) THEN ParseFail
            ELSE IF t[i + 1] \in {Quote, Backslash}
                 THEN ParseChars(t, i + 2, Append(acc, t[i + 1]))
            ELSE IF t[i + 1] = "n" THEN ParseChars(t, i + 2, Append(acc, Newline))
            ELSE ParseFail
  ELSE ParseChars(t, i + 1, Append(acc, t[i]))

WithMember(f, key, val) ==
  [x \in DOMAIN f \cup {key} |-> IF x = key THEN val ELSE f[x]]

RECURSIVE ParseValue(_, _)
RECURSIVE ParseItems(_, _, _)
RECURSIVE ParseMembers(_, _, _)
ParseValue(t, i0) ==
  LET i == SkipWs(t, i0)
  IN IF i > Len(t) THEN ParseFail
     ELSE CASE t[i] = "{" ->
                 LET j == SkipWs(t, i + 1)
                 IN IF j <= Len(t) /\ t[j] = "}"
                    THEN [ok |-> TRUE, v |-> JObj(<<>>), i |-> j + 1]
                    ELSE ParseMembers(t, j, <<>>)
            [] t[i] = "[" ->
                 LET j == SkipWs(t, i + 1)
                 IN IF j <= Len(t) /\ t[j] = "]"
                    THEN [ok |-> TRUE, v |-> JArr(<<>>), i |-> j + 1]
                    ELSE ParseItems(t, j, <<>>)
            [] t[i] = Quote ->
                 LET r == ParseChars(t, i + 1, <<>>)
                 IN IF r.ok THEN [ok |-> TRUE, v |-> JStr(r.v), i |-> r.i] ELSE ParseFail
            [] t[i] = "-" \/ IsDigit(t[i]) -> ParseNumber(t, i)
            [] t[i] = "t" ->
                 IF HasLiteral(t, i, <<"t","r","u","e">>)
                 THEN [ok |-> TRUE, v |-> JBool(TRUE), i |-> i + 4] ELSE ParseFail
            [] t[i] = "f" ->
                 IF HasLiteral(t, i, <<"f","a","l","s","e">>)
                 THEN [ok |-> TRUE, v |-> JBool(FALSE), i |-> i + 5] ELSE ParseFail
            [] t[i] = "n" ->
                 IF HasLiteral(t, i, <<"n","u","l","l">>)
                 THEN [ok |-> TRUE, v |-> JNull, i |-> i + 4] ELSE ParseFail
            [] OTHER -> ParseFail

\* The elements of an array, from the position of its next element.
ParseItems(t, i, acc) ==
  LET r == ParseValue(t, i)
  IN IF ~r.ok THEN ParseFail
     ELSE LET j == SkipWs(t, r.i)
          IN IF j > Len(t) THEN ParseFail
             ELSE IF t[j] = "," THEN ParseItems(t, j + 1, Append(acc, r.v))
             ELSE IF t[j] = "]" THEN [ok |-> TRUE, v |-> JArr(Append(acc, r.v)), i |-> j + 1]
             ELSE ParseFail

\* The members of an object, from the position of its next key.
ParseMembers(t, i0, f) ==
  LET i == SkipWs(t, i0)
  IN IF i > Len(t) \/ t[i] # Quote THEN ParseFail
     ELSE LET key == ParseChars(t, i + 1, <<>>)
          IN IF ~key.ok THEN ParseFail
             ELSE LET c == SkipWs(t, key.i)
                  IN IF c > Len(t) \/ t[c] # ":" THEN ParseFail
                     ELSE LET r == ParseValue(t, c + 1)
                          IN IF ~r.ok THEN ParseFail
                             ELSE LET j == SkipWs(t, r.i)
                                      g == WithMember(f, key.v, r.v)
                                  IN IF j > Len(t) THEN ParseFail
                                     ELSE IF t[j] = "," THEN ParseMembers(t, j + 1, g)
                                     ELSE IF t[j] = "}"
                                          THEN [ok |-> TRUE, v |-> JObj(g), i |-> j + 1]
                                     ELSE ParseFail

\* JSON.parse(text): the value, or a SyntaxError.
JsonParse(t) ==
  LET r == ParseValue(t, 1)
  IN IF r.ok /\ SkipWs(t, r.i) > Len(t)
     THEN [ok |-> TRUE, v |-> r.v]
     ELSE [ok |-> FALSE]

\* The lazy pattern /\{[\s\S]*?\}/: from the first "{" to the first "}" after it.
JsonMatch_lazy(t) ==
  LET opens == {i \in 1..Len(t) : t[i] = "{"}
  IN IF opens = {} THEN [found |-> FALSE]
     ELSE LET first == CHOOSE i \in opens : \A j \in opens : i <= j
              closes == {i \in (first + 1)..Len(t) : t[i] = "}"}
          IN IF closes = {} THEN [found |-> FALSE]
             ELSE [found |-> TRUE,
                   text |-> SubSeq(t, first, CHOOSE i \in closes : \A j \in closes : i <= j)]

\* responseText.match(/\{[\s\S]*\}/): from the first "{" to the last "}".
JsonMatch(t) ==
  LET opens == {i \in 1..Len(t) : t[i] = "{"}
      closes == {i \in 1..Len(t) : t[i] = "}"}
  IN IF opens = {} \/ closes = {} THEN [found |-> FALSE]
     ELSE LET first == CHOOSE i \in opens : \A j \in opens : i <= j
              last == CHOOSE i \in closes : \A j \in closes : j <= i
          IN IF last > first
             THEN [found |-> TRUE, text |-> SubSeq(t, first, last)]
             ELSE [found |-> FALSE]

(***************************************************************************)
(* Schemas (zod).  A schema is data; ZodParse walks the schema and the     *)
(* value together, collects every issue and builds the parsed output.      *)
(***************************************************************************)
ZString == [t |-> "string"]
ZNumber == [t |-> "number"]
ZArray(el) == [t |-> "array", el |-> el]
ZObject(shape) == [t |-> "object", shape |-> shape]
Required(key, schema) == [key |-> key, schema |-> schema, optional |-> FALSE]
Optional(key, schema) == [key |-> key, schema |-> schema, optional |-> TRUE]

\* taskSchema with end declared optional.
taskSchema_endOptional ==
  ZObject(<< Required(kId, ZNumber),
             Required(kName, ZString),
             Required(kStart, ZString),
             Optional(kEnd, ZString),
             Optional(kDependencies, ZArray(ZNumber)),
             Optional(kCategory, ZString) >>)

taskSchema ==
  ZObject(<< Required(kId, ZNumber),
             Required(kName, ZString),
             Required(kStart, ZString),
             Required(kEnd, ZString),
             Optional(kDependencies, ZArray(ZNumber)),
             Optional(kCategory, ZString) >>)

ganttChartDataSchema ==
  ZObject(<< Required(kTitle, ZString),
             Required(kTasks, ZArray(taskSchema)) >>)

barChartDataPointSchema ==
  ZObject(<< Required(kLabel, ZString),
             Required(kValue, ZNumber),
             Optional(kCategory, ZString) >>)

barChartDataSchema ==
  ZObject(<< Required(kTitle, ZString),
             Optional(kXAxisLabel, ZString),
             Optional(kYAxisLabel, ZString),
             Required(kData, ZArray(barChartDataPointSchema)) >>)

pieChartDataPointSchema ==
  ZObject(<< Required(kLabel, ZString),
             Required(kValue, ZNumber),
             Optional(kColor, ZString) >>)

pieChartDataSchema ==
  ZObject(<< Required(kTitle, ZString),
             Required(kData, ZArray(pieChartDataPointSchema)) >>)

\* A path element is a key of an object or an index of an array.
AtKey(key) == [key |-> key]
AtIndex(n) == [idx |-> n]

\* The type zod names for a value ("received" of an invalid_type issue).
ReceivedType(v) ==
  CASE v.k = "str" -> "string"
    [] v.k = "num" -> "number"
    [] v.k = "bool" -> "boolean"
    [] v.k = "arr" -> "array"
    [] v.k = "obj" -> "object"
    [] v.k = "null" -> "null"

InvalidType(path, expected, received) ==
  [code |-> "invalid_type", path |-> path, expected |-> expected,
   received |-> received,
   message |-> IF received = "undefined" THEN "Required" ELSE "Expected type"]

Parsed(out) == [issues |-> <<>>, out |-> out]
Rejected(issue) == [issues |-> << issue >>, out |-> JNull]

RECURSIVE ZodParse(_, _, _)
RECURSIVE ZodParseItems(_, _, _, _)
RECURSIVE ZodParseShape(_, _, _)
\* schema._parse(value) at the given path: the issues found, in the order
\* zod adds them, and the output (meaningful when there is no issue).
ZodParse(schema, v, path) ==
  CASE schema.t = "string" ->
         IF v.k = "str" THEN Parsed(v)
         ELSE Rejected(InvalidType(path, "string", ReceivedType(v)))
    [] schema.t = "number" ->
         IF v.k = "num" THEN Parsed(v)
         ELSE Rejected(InvalidType(path, "number", ReceivedType(v)))
    [] schema.t = "array" ->
         IF v.k = "arr" THEN ZodParseItems(schema.el, v.a, path, 1)
         ELSE Rejected(InvalidType(path, "array", ReceivedType(v)))
    [] schema.t = "object" ->
         IF v.k = "obj" THEN ZodParseShape(schema.shape, v.f, path)
         ELSE Rejected(InvalidType(path, "object", ReceivedType(v)))

ZodParseItems(el, a, path, i) ==
  IF i > Len(a) THEN Parsed(JArr(<<>>))
  ELSE LET h == ZodParse(el, a[i], Append(path, AtIndex(i - 1)))
           r == ZodParseItems(el, a, path, i + 1)
       IN [issues |-> h.issues \o r.issues, out |-> JArr(<< h.out >> \o r.out.a)]

\* Keys outside the shape are stripped; an absent optional key stays absent.
ZodParseShape(shape, f, path) ==
  IF shape = <<>> THEN Parsed(JObj(<<>>))
  ELSE LET fd == Head(shape)
           r == ZodParseShape(Tail(shape), f, path)
       IN IF fd.key \in DOMAIN f
          THEN LET h == ZodParse(fd.schema, f[fd.key], Append(path, AtKey(fd.key)))
               IN [issues |-> h.issues \o r.issues,
                   out |-> JObj(WithMember(r.out.f, fd.key, h.out))]
          ELSE IF fd.optional THEN r
          ELSE [issues |-> << InvalidType(Append(path, AtKey(fd.key)),
                                          fd.schema.t, "undefined") >> \o r.issues,
                out |-> r.out]

\* schema.parse(value): the output, or a ZodError carrying all the issues.
SchemaParse(schema, v) ==
  LET r == ZodParse(schema, v, <<>>)
  IN IF r.issues = <<>> THEN [ok |-> TRUE, data |-> r.out]
     ELSE [ok |-> FALSE, issues |-> r.issues]

ChartTypes == {"gantt", "bar", "pie", "line", "flow"}

\* geminiRequestSchema.parse(req.body): prompt is a string of at least one
\* character, chartType is one of the enum values and defaults to "gantt".
geminiRequestSchema(body) ==
  LET promptIssues ==
        IF "prompt" \notin DOMAIN body
        THEN << InvalidType(<< AtKey(kPrompt) >>, "string", "undefined") >>
        ELSE IF body.prompt = ""
        THEN << [code |-> "too_small", path |-> << AtKey(kPrompt) >>,
                 message |-> "Prompt is required"] >>
        ELSE <<>>
      typeIssues ==
        IF "chartType" \in DOMAIN body /\ body.chartType \notin ChartTypes
        THEN << [code |-> "invalid_enum_value", path |-> << AtKey(kChartType) >>,
                 message |-> "Invalid enum value"] >>
        ELSE <<>>
      issues == promptIssues \o typeIssues
  IN IF issues = <<>>
     THEN [ok |-> TRUE,
           data |-> [prompt |-> body.prompt,
                     chartType |-> IF "chartType" \in DOMAIN body
                                   THEN body.chartType ELSE "gantt"]]
     ELSE [ok |-> FALSE, issues |-> issues]

\* fromZodError(error).message: one fragment (message and path) per issue.
fromZodError(issues) ==
  [i \in 1..Len(issues) |-> [message |-> issues[i].message, path |-> issues[i].path]]

(***************************************************************************)
(* Payloads the extraction service may answer with.                        *)
(***************************************************************************)
\* The object with the given members (a sequence of <<key, value>> pairs).
Obj(members) ==
  JObj([key \in {members[i][1] : i \in DOMAIN members} |->
          members[CHOOSE i \in DOMAIN members : members[i][1] = key][2]])

SeqsUpTo(S, n) == UNION {[1..m -> S] : m \in 0..n}

\* A task as the extraction service may write it: complete, with one
\* required field missing, with a field of the wrong type, with a field
\* the schema does not know, or with an empty string as its start or end.
TaskVariants ==
  {"min", "full", "noId", "noName", "noStart", "noEnd", "idString", "extra",
   "emptyStart", "emptyEnd"}

TaskValue(variant, i) ==
  Obj(  (IF variant = "noId" THEN <<>>
         ELSE IF variant = "idString" THEN << <<kId, JStr(<<"7">>)>> >>
         ELSE << <<kId, JNum(i)>> >>)
     \o (IF variant = "noName" THEN <<>> ELSE << <<kName, JStr(<<"a">>)>> >>)
     \o (IF variant = "noStart" THEN <<>>
         ELSE IF variant = "emptyStart" THEN << <<kStart, JStr(<<>>)>> >>
         ELSE << <<kStart, JStr(<<"s">>)>> >>)
     \o (IF variant = "noEnd" THEN <<>>
         ELSE IF variant = "emptyEnd" THEN << <<kEnd, JStr(<<>>)>> >>
         ELSE << <<kEnd, JStr(<<"e">>)>> >>)
     \o (IF variant = "full"
         THEN << <<kDependencies, JArr(<< JNum(1) >>)>>, <<kCategory, JStr(<<"c">>)>> >>
         ELSE <<>>)
     \o (IF variant = "extra" THEN << <<kExtra, JNum(0)>> >> ELSE <<>>) )

\* A Gantt payload: its title (a string, missing, or a number) and its
\* tasks (a list, missing, or a string).
GanttCases ==
  [title : {"ok", "absent", "number"}, tasks : {"absent", "string"}, list : {<<>>}]
  \cup [title : {"ok", "absent", "number"}, tasks : {"list"},
        list : SeqsUpTo(TaskVariants, MaxTasks)]

GanttValue(c) ==
  Obj(  (CASE c.title = "ok" -> << <<kTitle, JStr(<<"G">>)>> >>
           [] c.title = "number" -> << <<kTitle, JNum(5)>> >>
           [] OTHER -> <<>>)
     \o (CASE c.tasks = "list" ->
                << <<kTasks, JArr([i \in DOMAIN c.list |-> TaskValue(c.list[i], i)])>> >>
           [] c.tasks = "string" -> << <<kTasks, JStr(<<"x">>)>> >>
           [] OTHER -> <<>>) )

\* The paths of a Gantt payload at which the schema is violated.
TaskFlawKey(variant) ==
  CASE variant \in {"noId", "idString"} -> kId
    [] variant = "noName" -> kName
    [] variant = "noStart" -> kStart
    [] variant = "noEnd" -> kEnd

FlawedPaths(c) ==
  (IF c.title # "ok" THEN { << AtKey(kTitle) >> } ELSE {})
  \cup (IF c.tasks # "list" THEN { << AtKey(kTasks) >> } ELSE {})
  \cup { << AtKey(kTasks), AtIndex(i - 1), AtKey(TaskFlawKey(c.list[i])) >> :
           i \in {j \in DOMAIN c.list :
                    c.list[j] \in {"noId", "noName", "noStart", "noEnd", "idString"}} }

\* Fields of a Gantt payload that are required and missing.
MissingPaths(c) ==
  (IF c.title = "absent" THEN { << AtKey(kTitle) >> } ELSE {})
  \cup (IF c.tasks = "absent" THEN { << AtKey(kTasks) >> } ELSE {})
  \cup { << AtKey(kTasks), AtIndex(i - 1), AtKey(TaskFlawKey(c.list[i])) >> :
           i \in {j \in DOMAIN c.list : c.list[j] \in {"noId", "noName", "noStart", "noEnd"}} }

HasExtraField(c) == \E i \in DOMAIN c.list : c.list[i] = "extra"

BarPoint(label, value) == Obj(<< <<kLabel, JStr(label)>>, <<kValue, value>> >>)

ChartSamples ==
  { \* bar and line
    Obj(<< <<kTitle, JStr(<<"B">>)>>,
           <<kData, JArr(<< BarPoint(<<"x">>, JNum(10)), BarPoint(<<"y">>, JNum(30)) >>)>> >>),
    Obj(<< <<kTitle, JStr(<<"B">>)>>, <<kXAxisLabel, JStr(<<"h">>)>>,
           <<kData, JArr(<<>>)>> >>),
    Obj(<< <<kData, JArr(<< BarPoint(<<"x">>, JStr(<<"1">>)) >>)>> >>),
    \* pie
    Obj(<< <<kTitle, JStr(<<"P">>)>>,
           <<kData, JArr(<< Obj(<< <<kLabel, JStr(<<"a">>)>>, <<kValue, JNum(25)>>,
                                   <<kColor, JStr(<<"c">>)>> >>) >>)>> >>),
    Obj(<< <<kTitle, JStr(<<"P">>)>>, <<kData, JArr(<< Obj(<< <<kValue, JNull>> >>) >>)>> >>),
    \* flow
    Obj(<< <<kTitle, JStr(<<"F">>)>>,
           <<kNodes, JArr(<< Obj(<< <<kId, JStr(<<"1">>)>>, <<kLabel, JStr(<<"s">>)>> >>) >>)>>,
           <<kLinks, JArr(<<>>)>> >>),
    Obj(<< <<kTitle, JStr(<<"F">>)>>,
           <<kNodes, JArr(<< Obj(<< <<kId, JStr(<<"1">>)>>, <<kLabel, JStr(<<"s">>)>> >>) >>)>>,
           <<kLinks, JArr(<< Obj(<< <<kSource, JStr(<<"1">>)>>,
                                    <<kTarget, JStr(<<"2">>)>> >>) >>)>> >>),
    Obj(<< <<kTitle, JStr(<<"F">>)>> >>) }

\* JSON values of every kind, strings with braces and quotes among them.
Atoms ==
  { JNull, JBool(TRUE), JBool(FALSE), JNum(0), JNum(7), JNum(0 - 3), JNum(120),
    JStr(<<>>), JStr(<<"a">>), JStr(<<"}">>), JStr(<<"{", "}">>),
    JStr(<< Quote >>), JStr(<< Backslash, "n" >>), JStr(<< Newline >>) }

Elements ==
  { JNum(7), JStr(<<"}">>), JArr(<<>>), Obj(<<>>), Obj(<< <<kExtra, JNum(1)>> >>) }

GenericValues ==
  Atoms
  \cup { JArr(a) : a \in SeqsUpTo(Elements, MaxItems) }
  \cup { Obj(<< <<kExtra, e>> >>) : e \in Atoms \cup Elements }
  \cup { Obj(<< <<kTitle, e>>, <<kExtra, JArr(a)>> >>) :
           e \in {JStr(<<"{">>), JNum(7)}, a \in SeqsUpTo(Elements, MaxItems) }

JsonSamples == ChartSamples \cup GenericValues

\* Texts that are not the serialization of a value.
OtherTexts ==
  { <<>>,
    <<"s","o","r","r","y">>,
    <<"{", Quote, "z", Quote, ":">>,
    <<"}", " ", "{">>,
    <<"{", "}", " ", "{", "}">>,
    <<"o","k"," ">> \o Stringify(Obj(<< <<kExtra, JNum(1)>> >>)) \o <<" ","."," ">>,
    <<"{", " ", Quote, "z", Quote, " ", ":", " ", "1", Newline, "}">>,
    <<"{", Quote, "z", Quote, ":", "0", "1", "}">> }

\* What the extraction service writes as the text of its first candidate:
\* the serialization of a Gantt payload or of another value, bare or in a
\* fenced code block, or a text that is no serialization.
CandidateSources ==
  [src : {"gantt"}, case : GanttCases, fenced : BOOLEAN]
  \cup [src : {"value"}, value : JsonSamples, fenced : BOOLEAN]
  \cup [src : {"raw"}, raw : OtherTexts]

SourceValue(of) == IF of.src = "gantt" THEN GanttValue(of.case) ELSE of.value

\* data.candidates[0].content.parts[0].text
CandidateText(of) ==
  IF of.src = "raw" THEN of.raw
  ELSE IF of.fenced THEN Fenced(Stringify(SourceValue(of)))
  ELSE Stringify(SourceValue(of))

(***************************************************************************)
(* State.                                                                  *)
(*   Server, one handling of POST /api/generate-chart at a time:           *)
(*     body           the request body (a record of the fields present)    *)
(*     apiKey         whether GEMINI_API_KEY is set                        *)
(*     routePc        "idle", "fetch" (awaiting the extraction service)    *)
(*                    or "done"                                            *)
(*     validatedData  the parsed request (prompt, chartType), once parsed  *)
(*     fetchCalls     calls of the extraction service for this request     *)
(*     upstream       how the extraction service answered                  *)
(*     jsonData       the value recovered from the answer's text           *)
(*     responses      the responses sent for this request                  *)
(***************************************************************************)
VARIABLES body, apiKey, routePc, validatedData, fetchCalls, upstream,
          jsonData, responses

routeVars ==
  << body, apiKey, routePc, validatedData, fetchCalls, upstream, jsonData, responses >>

None == [set |-> FALSE]
Some(v) == [set |-> TRUE, v |-> v]

\* res.status(status).json(json)
Json(status, json) == [status |-> status, json |-> json]

\* The body { message } of an error response: a fixed text and what is
\* interpolated after it.
Message(text, detail) == [message |-> text, detail |-> detail]
NoDetail == [d |-> "none"]
TypeDetail(chartType) == [d |-> "chartType", chartType |-> chartType]
TextDetail(text) == [d |-> "text", text |-> text]
IssuesDetail(fragments) == [d |-> "issues", fragments |-> fragments]

Prompts == {"", "Generate a chart"}
RequestTypes == ChartTypes \cup {"unknown"}

RequestBodies ==
  { <<>> } \cup [prompt : Prompts] \cup [chartType : RequestTypes]
  \cup [prompt : Prompts, chartType : RequestTypes]

UpstreamErrorStatus == {400, 429, 503}
UpstreamErrorBodies == { <<"q","u","o","t","a">>, <<>> }

UpstreamOutcomes ==
  { [kind |-> "reject"], [kind |-> "notJson"], [kind |-> "noCandidates"],
    [kind |-> "noContent"] }
  \cup [kind : {"status"}, status : UpstreamErrorStatus, text : UpstreamErrorBodies]
  \cup [kind : {"text"}, of : CandidateSources]

\* The if/else chain that chooses the prompt sent to the extraction service.
GeminiPrompt(chartType, prompt) ==
  IF chartType \in {"gantt", "bar", "pie", "line", "flow"}
  THEN [supported |-> TRUE, template |-> chartType, prompt |-> prompt]
  ELSE [supported |-> FALSE]

UnsupportedResponse(chartType) ==
  Json(400, Message("Unsupported chart type: ", TypeDetail(chartType)))

\* The outer catch of the handler.
OuterCatch(error) ==
  IF error.name = "ZodError"
  THEN Json(400, Message("Request validation error: ",
                         IssuesDetail(fromZodError(error.issues))))
  ELSE Json(500, Message("Internal server error", NoDetail))

\* The handler reporting only error.issues[0].
ZodErrorResponse_firstOnly(issues) ==
  Json(400, Message("Chart data validation error: ",
                    IssuesDetail(fromZodError(<< issues[1] >>))))

\* The ZodError branch of the inner catch.

ZodErrorResponse(issues) ==
  Json(400, Message("Chart data validation error: ", IssuesDetail(fromZodError(issues))))

\* The inner catch without its SyntaxError branch.
InnerCatch_noSyntaxBranch(error) ==
  IF error.name = "ZodError"
  THEN Json(400, Message("Chart data validation error: ",
                         IssuesDetail(fromZodError(error.issues))))
  ELSE Json(500, Message("Failed to process chart data", NoDetail))

\* The catch around the extraction-service call and the processing of its answer.
InnerCatch(error) ==
  IF error.name = "SyntaxError"
  THEN Json(400, Message("Invalid JSON in Gemini API response", NoDetail))
  ELSE IF error.name = "ZodError"
  THEN ZodErrorResponse(error.issues)
  ELSE Json(500, Message("Failed to process chart data", NoDetail))

\* The branch answering 500 whatever the upstream status.
NotOkResponse_status500(status, errorText) ==
  Json(500, Message("Failed to get response from Gemini API: ", TextDetail(errorText)))

\* The branch taken when the extraction service answers with a non-2xx status.
NotOkResponse(status, errorText) ==
  Json(status, Message("Failed to get response from Gemini API: ", TextDetail(errorText)))

\* The schema chosen for the chart type; flow data passes unvalidated.
ValidateChartData(chartType, json) ==
  CASE chartType = "gantt" -> SchemaParse(ganttChartDataSchema, json)
    [] chartType = "bar" -> SchemaParse(barChartDataSchema, json)
    [] chartType = "pie" -> SchemaParse(pieChartDataSchema, json)
    [] chartType = "line" -> SchemaParse(barChartDataSchema, json)
    [] chartType = "flow" -> [ok |-> TRUE, data |-> json]
    [] OTHER -> [ok |-> FALSE, thrown |-> "Error"]

\* The JSON recovery: the brace-delimited substring of the text, parsed.
RecoverJson(responseText) ==
  LET jsonMatch == JsonMatch(responseText)
  IN IF ~jsonMatch.found THEN [kind |-> "noMatch"]
     ELSE LET parsed == JsonParse(jsonMatch.text)
          IN IF parsed.ok THEN [kind |-> "value", v |-> parsed.v]
             ELSE [kind |-> "syntaxError"]

\* The handler answering with the recovered value without validating it.
ProcessText_unvalidated(chartType, responseText) ==
  LET recovered == RecoverJson(responseText)
  IN CASE recovered.kind = "noMatch" ->
            [jsonData |-> None,
             res |-> Json(400, Message("Could not extract valid JSON from Gemini API response",
                                       NoDetail))]
       [] recovered.kind = "syntaxError" ->
            [jsonData |-> None, res |-> InnerCatch([name |-> "SyntaxError"])]
       [] OTHER -> [jsonData |-> Some(recovered.v), res |-> Json(200, recovered.v)]

\* From the text of the first candidate to the response.
ProcessText(chartType, responseText) ==
  LET recovered == RecoverJson(responseText)
  IN CASE recovered.kind = "noMatch" ->
            [jsonData |-> None,
             res |-> Json(400, Message("Could not extract valid JSON from Gemini API response",
                                       NoDetail))]
       [] recovered.kind = "syntaxError" ->
            [jsonData |-> None, res |-> InnerCatch([name |-> "SyntaxError"])]
       [] OTHER ->
            LET validated == ValidateChartData(chartType, recovered.v)
            IN [jsonData |-> Some(recovered.v),
                res |-> IF validated.ok THEN Json(200, validated.data)
                        ELSE IF "issues" \in DOMAIN validated
                        THEN InnerCatch([name |-> "ZodError", issues |-> validated.issues])
                        ELSE InnerCatch([name |-> "Error"])]

\* From the settled fetch to the response.
ProcessUpstream(chartType, o) ==
  CASE o.kind = "reject" ->
         [jsonData |-> None, res |-> InnerCatch([name |-> "TypeError"])]
    [] o.kind = "status" ->
         [jsonData |-> None, res |-> NotOkResponse(o.status, o.text)]
    [] o.kind = "notJson" ->
         [jsonData |-> None, res |-> InnerCatch([name |-> "SyntaxError"])]
    [] o.kind = "noCandidates" ->
         [jsonData |-> None,
          res |-> Json(400, Message("No valid response from Gemini API", NoDetail))]
    [] o.kind = "noContent" ->
         [jsonData |-> None, res |-> InnerCatch([name |-> "TypeError"])]
    [] o.kind = "text" -> ProcessText(chartType, CandidateText(o.of))

RouteInit ==
  /\ body = <<>>
  /\ apiKey \in BOOLEAN
  /\ routePc = "idle"
  /\ validatedData = None
  /\ fetchCalls = 0
  /\ upstream = [kind |-> "none"]
  /\ jsonData = None
  /\ responses = <<>>

(***************************************************************************)
(* State of the client: the hook useChartGenerator and the Home page.      *)
(*     chartData, chartType, error, chartCode   the hook's useState values *)
(*     codeDeps          the [chartData, chartType] the chartCode effect   *)
(*                       last ran with                                     *)
(*     currentMutation   the mutation the hook's observer is attached to:  *)
(*                       its variables, status, the promise returned by    *)
(*                       mutateAsync and, once settled, the answer         *)
(*     inFlight          earlier mutations that are still pending          *)
(*     prompt, selectedChartType   the Home page's form                    *)
(*     toast             the last toast shown                              *)
(***************************************************************************)
VARIABLES chartData, chartType, error, currentMutation, inFlight,
          prompt, selectedChartType, toast, chartCode, codeDeps

hookVars ==
  << chartData, chartType, error, currentMutation, inFlight,
     prompt, selectedChartType, toast, chartCode, codeDeps >>

(***************************************************************************)
(* State of the chart store (MemStorage) and of POST /api/charts.          *)
(*     charts          the Map of stored charts: its entries, in insertion *)
(*                     order                                               *)
(*     currentChartId  the id the next chart gets                          *)
(*     now             the clock new Date() reads                          *)
(*     created         what the createChart calls returned, in call order: *)
(*                     the chart and whether its caller has responded      *)
(*     saveResponse    the last response of POST /api/charts               *)
(***************************************************************************)
VARIABLES charts, currentChartId, now, created, saveResponse

storeVars == << charts, currentChartId, now, created, saveResponse >>

(***************************************************************************)
(* State of the chart area of the page.                                    *)
(*     mounted     the chart ChartRenderer is rendered with, if it is      *)
(*     container   what the chart component's container div holds         *)
(***************************************************************************)
VARIABLES mounted, container

renderVars == << mounted, container >>

(***************************************************************************)
(* State of a rendered flow chart: its force simulation and the drags of   *)
(* its nodes.                                                              *)
(*     alpha, alphaTarget   the simulation's energy and the energy it      *)
(*                          tends to, in thousandths                       *)
(*     ticking     whether the simulation's timer is running               *)
(*     gestures    by pointer (the mouse, a touch): the node it drags, if  *)
(*                 it drags one                                            *)
(*     fixed       by node: its fixed position (fx, fy), or null           *)
(*     lastDrag    the last drag event: its pointer and position           *)
(***************************************************************************)
VARIABLES alpha, alphaTarget, ticking, gestures, fixed, lastDrag

flowVars == << alpha, alphaTarget, ticking, gestures, fixed, lastDrag >>

vars == << routeVars, hookVars, storeVars, renderVars, flowVars >>

\* What the actions of the generate route, of the hook, of the store and of
\* the chart area leave alone.
exceptRoute == << hookVars, storeVars, renderVars, flowVars >>
exceptHook == << routeVars, storeVars, renderVars, flowVars >>
exceptStore == << routeVars, hookVars, renderVars, flowVars >>
exceptRender == << routeVars, hookVars, storeVars, flowVars >>
exceptFlow == << routeVars, hookVars, storeVars, renderVars >>

\* POST /api/generate-chart, up to the call of the extraction service.
PostGenerateChart(b) ==
  /\ routePc \in {"idle", "done"}
  /\ body' = b
  /\ upstream' = [kind |-> "none"]
  /\ jsonData' = None
  /\ UNCHANGED apiKey
  /\ LET parsed == geminiRequestSchema(b)
     IN IF ~parsed.ok
        THEN /\ validatedData' = None
             /\ responses' = << OuterCatch([name |-> "ZodError", issues |-> parsed.issues]) >>
             /\ fetchCalls' = 0
             /\ routePc' = "done"
        ELSE /\ validatedData' = Some(parsed.data)
             /\ IF ~apiKey
                THEN /\ responses' =
                          << Json(500, Message("Gemini API key is not configured", NoDetail)) >>
                     /\ fetchCalls' = 0
                     /\ routePc' = "done"
                ELSE IF GeminiPrompt(parsed.data.chartType, parsed.data.prompt).supported
                THEN /\ responses' = <<>>
                     /\ fetchCalls' = 1
                     /\ routePc' = "fetch"
                ELSE /\ responses' = << UnsupportedResponse(parsed.data.chartType) >>
                     /\ fetchCalls' = 0
                     /\ routePc' = "done"
  /\ UNCHANGED exceptRoute

\* The extraction service's answer arrives and the handler runs to its response.
FetchSettles(o) ==
  /\ routePc = "fetch"
  /\ upstream' = o
  /\ LET r == ProcessUpstream(validatedData.v.chartType, o)
     IN /\ jsonData' = r.jsonData
        /\ responses' = Append(responses, r.res)
  /\ routePc' = "done"
  /\ UNCHANGED << body, apiKey, validatedData, fetchCalls >>
  /\ UNCHANGED exceptRoute

\* Payloads a successful answer may carry.
ChartPayloads == {"chart A", "chart B"}

\* Error responses of the generate route, by status and message.
HttpErrors ==
  { [status |-> 400, message |-> "Chart data validation error: "],
    [status |-> 503, message |-> "Failed to get response from Gemini API: "] }

\* How one request to /api/generate-chart ends for the client.
Answers ==
  [kind : {"ok"}, data : ChartPayloads]
  \cup [kind : {"http"}, error : HttpErrors]
  \cup { [kind |-> "network"] }

\* apiRequest: the response, or an Error for a failed call or a non-2xx status.
apiRequest(answer) ==
  CASE answer.kind = "ok" -> [thrown |-> FALSE, json |-> answer.data]
    [] answer.kind = "http" ->
         [thrown |-> TRUE,
          message |-> [status |-> answer.error.status, text |-> answer.error.message]]
    [] answer.kind = "network" ->
         [thrown |-> TRUE, message |-> [status |-> 0, text |-> "Failed to fetch"]]

EmptyMessage == [status |-> 0, text |-> ""]

\* mutationFn: { data, type } of the answer, or the Error of apiRequest.
mutationFn(variables, answer) ==
  LET response == apiRequest(answer)
  IN IF response.thrown THEN [thrown |-> TRUE, message |-> response.message]
     ELSE [thrown |-> FALSE,
           result |-> [data |-> response.json, type |-> variables.chartType]]

\* onSuccess without its setError(null) call.
onSuccess_keepsError(result) ==
  [chartData |-> Some(result.data), chartType |-> Some(result.type),
   error |-> error, toast |-> "Chart generated successfully"]

\* The state the hook's onSuccess callback sets.
onSuccess(result) ==
  [chartData |-> Some(result.data), chartType |-> Some(result.type),
   error |-> None, toast |-> "Chart generated successfully"]

\* onError without setChartData(null) and setChartType(null): the values
\* set by the last success stay.
onError_keepsChart(message) ==
  [chartData |-> chartData, chartType |-> chartType,
   error |-> Some(IF message # EmptyMessage THEN message
                  ELSE [status |-> 0, text |-> "Failed to generate chart"]),
   toast |-> "Chart generation failed"]

\* onError without its setError call: the error stays as generateChart
\* left it.
onError_noSetError(message) ==
  [chartData |-> None, chartType |-> None, error |-> error,
   toast |-> "Chart generation failed"]

\* The state the hook's onError callback sets.
onError(message) ==
  [chartData |-> None, chartType |-> None,
   error |-> Some(IF message # EmptyMessage THEN message
                  ELSE [status |-> 0, text |-> "Failed to generate chart"]),
   toast |-> "Chart generation failed"]

\* isLoading of the hook: isPending of the observer's current mutation.
isLoading == currentMutation.set /\ currentMutation.v.status = "pending"

PendingMutations == Len(inFlight) + (IF isLoading THEN 1 ELSE 0)

\* generateChartCode: a text that embeds the chart's data.
generateChartCode(data) == << "// D3.js Gantt Chart for", data >>

\* A render has committed whose chartData or chartType differs from the
\* values the chartCode effect last ran with: the effect is yet to run.
EffectPending == codeDeps # << chartData, chartType >>

getPlaceholderPrompt(type) == [placeholder |-> type]
TypedPrompts == { [typed |-> ""], [typed |-> "   "], [typed |-> "Generate a chart"] }

\* prompt.trim() is empty
IsBlank(p) == p \in { [typed |-> ""], [typed |-> "   "] }

HookInit ==
  /\ chartData = None
  /\ chartType = None
  /\ error = None
  /\ currentMutation = None
  /\ inFlight = <<>>
  /\ selectedChartType \in ChartTypes
  /\ prompt = getPlaceholderPrompt(selectedChartType)
  /\ toast = "none"
  /\ chartCode = None
  /\ codeDeps = << None, None >>

\* generateChart without its setError(null) call.
generateChart_keepsError(p, t) ==
  /\ ~EffectPending
  /\ currentMutation' =
       Some([variables |-> [prompt |-> p, chartType |-> t],
             status |-> "pending", promise |-> "pending"])
  /\ inFlight' = IF isLoading THEN Append(inFlight, currentMutation.v) ELSE inFlight
  /\ UNCHANGED << chartData, chartType, error, toast, chartCode, codeDeps >>

\* generateChart(prompt, chartType): clears the error and starts a mutation,
\* to which the observer moves.
generateChart(p, t) ==
  /\ ~EffectPending
  /\ error' = None
  /\ currentMutation' =
       Some([variables |-> [prompt |-> p, chartType |-> t],
             status |-> "pending", promise |-> "pending"])
  /\ inFlight' = IF isLoading THEN Append(inFlight, currentMutation.v) ELSE inFlight
  /\ UNCHANGED << chartData, chartType, toast, chartCode, codeDeps >>

\* A caller of the hook invokes generateChart at any time.
GenerateChart(p, t) ==
  /\ PendingMutations < MaxRequests
  /\ generateChart(p, t)
  /\ UNCHANGED << prompt, selectedChartType, exceptHook >>

\* The Generate button without its disabled attribute.
GenerateDisabled_never == FALSE

\* The Generate button is disabled while the hook is loading.
GenerateDisabled == isLoading

\* A click on Generate: handleGenerateChart.
HandleGenerateChart ==
  /\ ~GenerateDisabled
  /\ PendingMutations < MaxRequests
  /\ IF IsBlank(prompt)
     THEN /\ ~EffectPending
          /\ toast' = "Input required"
          /\ UNCHANGED << chartData, chartType, error, currentMutation, inFlight,
                          chartCode, codeDeps >>
     ELSE generateChart(prompt, selectedChartType)
  /\ UNCHANGED << prompt, selectedChartType, exceptHook >>

SetPrompt(p) ==
  /\ ~EffectPending
  /\ prompt' = p
  /\ UNCHANGED << chartData, chartType, error, currentMutation, inFlight,
                  selectedChartType, toast, chartCode, codeDeps, exceptHook >>

HandleClearPrompt ==
  /\ ~EffectPending
  /\ prompt' = [typed |-> ""]
  /\ UNCHANGED << chartData, chartType, error, currentMutation, inFlight,
                  selectedChartType, toast, chartCode, codeDeps, exceptHook >>

HandleChartTypeChange(value) ==
  /\ ~EffectPending
  /\ selectedChartType' = value
  /\ prompt' = getPlaceholderPrompt(value)
  /\ UNCHANGED << chartData, chartType, error, currentMutation, inFlight,
                  toast, chartCode, codeDeps, exceptHook >>

\* What a mutation becomes when its mutationFn has settled.
Settled(m, outcome, answer) ==
  [variables |-> m.variables,
   status |-> IF outcome.thrown THEN "error" ELSE "success",
   promise |-> IF outcome.thrown THEN "rejected" ELSE "fulfilled",
   answer |-> answer]

\* The callbacks of a mutation whose mutationFn has settled.
Callbacks(outcome) ==
  IF outcome.thrown THEN onError(outcome.message) ELSE onSuccess(outcome.result)

ApplyCallbacks(outcome) ==
  LET s == Callbacks(outcome)
  IN /\ chartData' = s.chartData
     /\ chartType' = s.chartType
     /\ error' = s.error
     /\ toast' = s.toast

\* The answer to the observer's current mutation arrives.
CurrentSettles(answer) ==
  /\ ~EffectPending
  /\ isLoading
  /\ LET outcome == mutationFn(currentMutation.v.variables, answer)
     IN /\ ApplyCallbacks(outcome)
        /\ currentMutation' = Some(Settled(currentMutation.v, outcome, answer))
  /\ UNCHANGED << inFlight, prompt, selectedChartType, chartCode, codeDeps, exceptHook >>

\* The answer to an earlier mutation arrives: its callbacks run all the same.
EarlierSettles(i, answer) ==
  /\ ~EffectPending
  /\ i \in DOMAIN inFlight
  /\ ApplyCallbacks(mutationFn(inFlight[i].variables, answer))
  /\ inFlight' = [j \in 1..(Len(inFlight) - 1) |->
                    IF j < i THEN inFlight[j] ELSE inFlight[j + 1]]
  /\ UNCHANGED << currentMutation, prompt, selectedChartType, chartCode, codeDeps,
                  exceptHook >>

\* The effect on [chartData, chartType], run after the render that changed them.
ChartCodeEffect ==
  /\ EffectPending
  /\ chartCode' = IF chartData.set /\ chartType = Some("gantt")
                  THEN Some(generateChartCode(chartData.v))
                  ELSE None
  /\ codeDeps' = << chartData, chartType >>
  /\ UNCHANGED << chartData, chartType, error, currentMutation, inFlight,
                  prompt, selectedChartType, toast, exceptHook >>

(***************************************************************************)
(* The chart store and the save route.                                     *)
(***************************************************************************)
\* Map.prototype.set, get and values on the entries of a Map.
MapSet(m, k, v) ==
  IF \E i \in DOMAIN m : m[i].key = k
  THEN [i \in DOMAIN m |-> IF m[i].key = k THEN [key |-> k, value |-> v] ELSE m[i]]
  ELSE Append(m, [key |-> k, value |-> v])

MapGet(m, k) ==
  IF \E i \in DOMAIN m : m[i].key = k
  THEN Some(m[CHOOSE i \in DOMAIN m : m[i].key = k].value)
  ELSE None

MapValues(m) == [i \in DOMAIN m |-> m[i].value]

\* createChart with the spread after the assigned fields:
\* { id, createdAt, userId, ...insertChart }.
createChart_inputWins(insertChart, at) ==
  LET id == currentChartId
      chart == insertChart @@ [id |-> id, createdAt |-> at, userId |-> None]
  IN [chart |-> chart, charts |-> MapSet(charts, id, chart), currentChartId |-> id + 1]

\* createChart reading the counter without advancing it.
createChart_noIncrement(insertChart, at) ==
  LET id == currentChartId
      userId == IF "userId" \in DOMAIN insertChart THEN insertChart.userId ELSE None
      chart == [id |-> id, createdAt |-> at, userId |-> userId] @@ insertChart
  IN [chart |-> chart, charts |-> MapSet(charts, id, chart), currentChartId |-> id]

\* createChart keeping a single entry: charts.set(1, chart).
createChart_fixedKey(insertChart, at) ==
  LET id == currentChartId
      userId == IF "userId" \in DOMAIN insertChart THEN insertChart.userId ELSE None
      chart == [id |-> id, createdAt |-> at, userId |-> userId] @@ insertChart
  IN [chart |-> chart, charts |-> MapSet(charts, 1, chart), currentChartId |-> id + 1]

\* MemStorage.createChart, called when the clock reads at: the chart it
\* returns and the store it leaves.
createChart(insertChart, at) ==
  LET id == currentChartId
      userId == IF "userId" \in DOMAIN insertChart THEN insertChart.userId ELSE None
      chart == [id |-> id, createdAt |-> at, userId |-> userId] @@ insertChart
  IN [chart |-> chart, charts |-> MapSet(charts, id, chart), currentChartId |-> id + 1]

\* MemStorage.getChart and getAllCharts.
getChart(id) == MapGet(charts, id)
getAllCharts == MapValues(charts)

\* Data sent to the save route, by chart type, well-formed and malformed.
SaveSamples ==
  { [type |-> "gantt", malformed |-> FALSE,
     data |-> GanttValue([title |-> "ok", tasks |-> "list", list |-> << "min" >>])],
    [type |-> "gantt", malformed |-> TRUE,
     data |-> GanttValue([title |-> "absent", tasks |-> "list", list |-> << "noEnd" >>])],
    [type |-> "bar", malformed |-> FALSE,
     data |-> Obj(<< <<kTitle, JStr(<<"B">>)>>,
                     <<kData, JArr(<< BarPoint(<<"x">>, JNum(10)) >>)>> >>)],
    [type |-> "bar", malformed |-> TRUE,
     data |-> Obj(<< <<kData, JArr(<< BarPoint(<<"x">>, JStr(<<"1">>)) >>)>> >>)],
    [type |-> "line", malformed |-> FALSE,
     data |-> Obj(<< <<kTitle, JStr(<<"L">>)>>, <<kData, JArr(<<>>)>> >>)],
    [type |-> "line", malformed |-> TRUE,
     data |-> Obj(<< <<kTitle, JStr(<<"L">>)>>, <<kData, JStr(<<"x">>)>> >>)],
    [type |-> "pie", malformed |-> FALSE,
     data |-> Obj(<< <<kTitle, JStr(<<"P">>)>>,
                     <<kData, JArr(<< BarPoint(<<"a">>, JNum(25)) >>)>> >>)],
    [type |-> "pie", malformed |-> TRUE,
     data |-> Obj(<< <<kTitle, JStr(<<"P">>)>>,
                     <<kData, JArr(<< Obj(<< <<kValue, JNull>> >>) >>)>> >>)],
    [type |-> "flow", malformed |-> FALSE,
     data |-> Obj(<< <<kTitle, JStr(<<"F">>)>>, <<kNodes, JArr(<<>>)>>,
                     <<kLinks, JArr(<<>>)>> >>)],
    [type |-> "flow", malformed |-> TRUE,
     data |-> Obj(<< <<kTitle, JStr(<<"F">>)>>, <<kNodes, JNum(7)>> >>)] }

\* Bodies of POST /api/charts: every sample, a type outside the five, no type.
SaveBodies ==
  { [title |-> "T", type |-> x.type, data |-> x.data] : x \in SaveSamples }
  \cup { [title |-> "T", type |-> "unknown", data |-> Obj(<<>>)],
         [title |-> "T", data |-> Obj(<<>>)] }

\* Arguments of createChart from callers other than the save route.
StoreInputs ==
  { [title |-> "with id", type |-> "gantt", data |-> Obj(<<>>), id |-> 1],
    [title |-> "with user", type |-> "bar", data |-> Obj(<<>>), userId |-> Some(5)],
    [title |-> "no user", type |-> "pie", data |-> Obj(<<>>)] }

\* The save route validating gantt data only.
ValidateSave_ganttOnly(type, data) ==
  CASE type = "gantt" -> SchemaParse(ganttChartDataSchema, data)
    [] type \in {"bar", "pie", "line", "flow"} -> [ok |-> TRUE]
    [] OTHER -> [ok |-> FALSE, unsupported |-> TRUE]

\* The if/else chain of the save route: the schema by chart type.
ValidateSave(type, data) ==
  CASE type = "gantt" -> SchemaParse(ganttChartDataSchema, data)
    [] type = "bar" -> SchemaParse(barChartDataSchema, data)
    [] type = "pie" -> SchemaParse(pieChartDataSchema, data)
    [] type = "line" -> SchemaParse(barChartDataSchema, data)
    [] type = "flow" -> [ok |-> TRUE]
    [] OTHER -> [ok |-> FALSE, unsupported |-> TRUE]

SaveValidationError(issues) ==
  Json(400, Message("Chart validation error: ", IssuesDetail(fromZodError(issues))))

SaveUnsupported(type) ==
  Json(400, Message("Unsupported chart type: (type). Supported types are: gantt, bar, pie, line, flow",
                    TypeDetail(type)))

StoreInit ==
  /\ charts = <<>>
  /\ currentChartId = 1
  /\ now = 0
  /\ created = <<>>
  /\ saveResponse = None

\* The clock: new Date() reads the time of the last reading or a later one.
Clock == { now, now + 1 }

\* POST /api/charts up to the await of storage.createChart.
PostCharts(b, at) ==
  /\ Len(created) < MaxSaves
  /\ LET type == IF "type" \in DOMAIN b THEN b.type ELSE "undefined"
         checked == ValidateSave(type, b.data)
     IN IF checked.ok
        THEN LET r == createChart([title |-> b.title, type |-> type, data |-> b.data,
                                   userId |-> None], at)
             IN /\ charts' = r.charts
                /\ currentChartId' = r.currentChartId
                /\ now' = at
                /\ created' = Append(created, [chart |-> r.chart, responded |-> FALSE])
                /\ UNCHANGED saveResponse
        ELSE /\ saveResponse' = Some(IF "issues" \in DOMAIN checked
                                     THEN SaveValidationError(checked.issues)
                                     ELSE SaveUnsupported(type))
             /\ UNCHANGED << charts, currentChartId, now, created >>
  /\ UNCHANGED exceptStore

\* POST /api/charts after the await: res.status(201).json(chart).  Other
\* handlers may have run since the call of createChart.
PostChartsResponds(i) ==
  /\ i \in DOMAIN created
  /\ ~created[i].responded
  /\ created' = [created EXCEPT ![i].responded = TRUE]
  /\ saveResponse' = Some(Json(201, created[i].chart))
  /\ UNCHANGED << charts, currentChartId, now >>
  /\ UNCHANGED exceptStore

\* GET /api/charts.
GetCharts ==
  /\ saveResponse' = Some(Json(200, getAllCharts))
  /\ UNCHANGED << charts, currentChartId, now, created >>
  /\ UNCHANGED exceptStore

\* storage.createChart called by another caller.
CreateChart(insertChart, at) ==
  /\ Len(created) < MaxSaves
  /\ LET r == createChart(insertChart, at)
     IN /\ charts' = r.charts
        /\ currentChartId' = r.currentChartId
        /\ now' = at
        /\ created' = Append(created, [chart |-> r.chart, responded |-> TRUE])
  /\ UNCHANGED saveResponse
  /\ UNCHANGED exceptStore

(***************************************************************************)
(* The chart components: what their effects draw into the container.       *)
(***************************************************************************)
\* The container div before anything is drawn, and an svg drawn into it:
\* its width, its title and the marks bound to the data (bars, slices,
\* lines, nodes).
EmptyContainer == [drawn |-> FALSE]
Drawing(width, title, marks) ==
  [drawn |-> TRUE, width |-> width, title |-> title, marks |-> marks]

\* An effect that ended in an exception.
Thrown(exception) == [drawn |-> FALSE, threw |-> exception]
Threw(el) == "threw" \in DOMAIN el

Min(a, b) == IF a < b THEN a ELSE b
Max(a, b) == IF a > b THEN a ELSE b

\* The distinct elements of a sequence in order of first occurrence: the
\* domain a band or ordinal scale keeps, and Array.from(new Set(...)).
RECURSIVE Distinct(_)
Distinct(s) ==
  IF s = <<>> THEN <<>>
  ELSE LET front == Distinct(SubSeq(s, 1, Len(s) - 1))
           last == s[Len(s)]
       IN IF \E i \in DOMAIN front : front[i] = last THEN front ELSE Append(front, last)

IndexOf(s, x) == CHOOSE i \in DOMAIN s : s[i] = x

\* d3.scaleBand().domain(domain).range([0, height]).padding(0.2) applied to
\* the i-th element of its domain, as an exact fraction:
\* step = height / (n + 0.2), first band at 0.2 * step.
BandPosition(i, n, height) == [num |-> height * (5 * (i - 1) + 1), den |-> 5 * n + 1]

GanttHeight == 320
BarHeight == 300

\* Pixel positions are exact fractions num / den with den > 0, or NaN.
NaN == [nan |-> TRUE]
Frac(num, den) ==
  IF den < 0 THEN [nan |-> FALSE, num |-> 0 - num, den |-> 0 - den]
  ELSE [nan |-> FALSE, num |-> num, den |-> den]

\* A continuous d3 scale with domain [d0, d1] and range [r0, r1] applied
\* to t; a scale whose domain is one point maps to the middle of its range.
Linear(d0, d1, r0, r1, t) ==
  IF d1 = d0 THEN Frac(r0 + r1, 2)
  ELSE Frac(r0 * (d1 - d0) + (t - d0) * (r1 - r0), d1 - d0)

\* The difference of two positions of the same scale.
Minus(a, b) ==
  IF a.nan \/ b.nan THEN NaN ELSE Frac(a.num * b.den - b.num * a.den, a.den * b.den)

\* new Date(text): for a date-only text YYYY-MM-DD the day of its UTC
\* midnight, counted from 1970-01-01; an Invalid Date for the other texts
\* of the model.
InvalidDate == [valid |-> FALSE]

DaysFromCivil(y, m, d) ==
  LET yy == IF m <= 2 THEN y - 1 ELSE y
      era == yy \div 400
      yoe == yy - era * 400
      mp == IF m > 2 THEN m - 3 ELSE m + 9
      doy == (153 * mp + 2) \div 5 + d - 1
      doe == yoe * 365 + yoe \div 4 - yoe \div 100 + doy
  IN era * 146097 + doe - 719468

NewDate(s) ==
  IF /\ Len(s) = 10
     /\ s[5] = "-" /\ s[8] = "-"
     /\ \A i \in {1, 2, 3, 4, 6, 7, 9, 10} : IsDigit(s[i])
  THEN LET y == ParseDigits(SubSeq(s, 1, 4), 1, 0).v
           m == ParseDigits(SubSeq(s, 6, 7), 1, 0).v
           d == ParseDigits(SubSeq(s, 9, 10), 1, 0).v
       IN IF m \in 1..12 /\ d \in 1..31
          THEN [valid |-> TRUE, day |-> DaysFromCivil(y, m, d)]
          ELSE InvalidDate
  ELSE InvalidDate

\* new Date(): the clock's reading.
DateNow == [valid |-> TRUE, day |-> now]

\* d3.min and d3.max of dates: Invalid Dates are skipped; undefined (here
\* InvalidDate) when no date is left.
D3Min(dates) ==
  LET days == { dates[i].day : i \in { j \in DOMAIN dates : dates[j].valid } }
  IN IF days = {} THEN InvalidDate
     ELSE [valid |-> TRUE, day |-> CHOOSE d \in days : \A e \in days : d <= e]

D3Max(dates) ==
  LET days == { dates[i].day : i \in { j \in DOMAIN dates : dates[j].valid } }
  IN IF days = {} THEN InvalidDate
     ELSE [valid |-> TRUE, day |-> CHOOSE d \in days : \A e \in days : d >= e]

\* The domain of the time scale with the maximum taken over the start
\* dates as well.
TimeDomain_startsOnly(starts, ends) ==
  << (IF D3Min(starts).valid THEN D3Min(starts) ELSE DateNow).day,
     (IF D3Max(starts).valid THEN D3Max(starts) ELSE DateNow).day >>

\* The domain of xScale: [d3.min(startDate) || new Date(),
\* d3.max(endDate) || new Date()].
TimeDomain(starts, ends) ==
  << (IF D3Min(starts).valid THEN D3Min(starts) ELSE DateNow).day,
     (IF D3Max(ends).valid THEN D3Max(ends) ELSE DateNow).day >>

\* xScale = d3.scaleTime().domain(domain).range([0, width]) applied to a date.
TimeScale(domain, width, date) ==
  IF date.valid THEN Linear(domain[1], domain[2], 0, width, date.day) ELSE NaN

\* d.category || 'Default'
DefaultCategory == <<"D","e","f","a","u","l","t">>
CategoryOf(item) ==
  IF kCategory \in DOMAIN item.f /\ item.f[kCategory].s # <<>>
  THEN item.f[kCategory].s
  ELSE DefaultCategory

\* Array.from(new Set(items.map(d => d.category || 'Default')))
Categories(items) == Distinct([i \in DOMAIN items |-> CategoryOf(items[i])])

Palette == << "#4338CA", "#3B82F6", "#10B981", "#F59E0B", "#EC4899" >>

\* An ordinal scale that gives every value past its range the last colour.
ScaleOrdinal_clamped(domain, range, x) ==
  range[Min(IndexOf(Distinct(domain), x), Len(range))]

\* d3.scaleOrdinal().domain(domain).range(range) applied to x, a value of
\* its domain: the range is reused cyclically.
ScaleOrdinal(domain, range, x) ==
  range[((IndexOf(Distinct(domain), x) - 1) % Len(range)) + 1]

\* The legend rows of the Gantt and bar charts: one per category.
Legend(categories) ==
  [i \in DOMAIN categories |->
     [text |-> categories[i], fill |-> ScaleOrdinal(categories, Palette, categories[i])]]

\* renderGanttChart: one bar per task, at the band of the task's name,
\* from xScale(startDate) to xScale(endDate), filled by category.
renderGanttChart(data, clientWidth) ==
  LET tasks == data.f[kTasks].a
      names == [i \in DOMAIN tasks |-> tasks[i].f[kName].s]
      starts == [i \in DOMAIN tasks |-> NewDate(tasks[i].f[kStart].s)]
      ends == [i \in DOMAIN tasks |-> NewDate(tasks[i].f[kEnd].s)]
      width == Min(960, clientWidth) - 160 - 120
      xDomain == TimeDomain(starts, ends)
      domain == Distinct(names)
      categories == Categories(tasks)
  IN Drawing(Min(960, clientWidth), data.f[kTitle].s,
             [i \in DOMAIN tasks |->
                [name |-> names[i],
                 x |-> TimeScale(xDomain, width, starts[i]),
                 y |-> BandPosition(IndexOf(domain, names[i]), Len(domain), GanttHeight),
                 width |-> Minus(TimeScale(xDomain, width, ends[i]),
                                 TimeScale(xDomain, width, starts[i])),
                 fill |-> ScaleOrdinal(categories, Palette, CategoryOf(tasks[i]))]])
     @@ [xDomain |-> xDomain, legend |-> Legend(categories)]

\* The effect of GanttChart on [data].
GanttChart(data, el, clientWidth) ==
  IF data.f[kTasks].a = <<>> THEN el ELSE renderGanttChart(data, clientWidth)

RECURSIVE Pow10(_)
Pow10(p) == IF p = 0 THEN 1 ELSE 10 * Pow10(p - 1)

\* d3's tickIncrement(0, span, 10) for a whole span of at least 10: the
\* step 1, 2, 5 or 10 times the power of ten below span / 10.
RECURSIVE Magnitude(_)
Magnitude(span) == IF span < 100 THEN 0 ELSE 1 + Magnitude(span \div 10)

TickIncrement(span) ==
  LET unit == Pow10(Magnitude(span) + 1)
      factor == IF span * span >= 50 * unit * unit THEN 10
                ELSE IF span * span >= 10 * unit * unit THEN 5
                ELSE IF span * span >= 2 * unit * unit THEN 2
                ELSE 1
  IN factor * Pow10(Magnitude(span))

CeilTo(n, step) == ((n + step - 1) \div step) * step

\* The loop of scale.nice(): the far end of the domain is rounded up to
\* the tick step until the step no longer changes (at most 10 rounds).
RECURSIVE NiceLoop(_, _, _)
NiceLoop(stop, prestep, maxIter) ==
  IF maxIter = 0 THEN stop
  ELSE LET step == TickIncrement(stop)
       IN IF step = prestep THEN stop
          ELSE NiceLoop(CeilTo(stop, step), step, maxIter - 1)

\* The far end of the domain [0, m].nice() for a whole m: below 10 the
\* tick step divides every whole number, and a domain [0, m] with m < 0
\* is extended downwards.
NiceStop(m) ==
  IF m < 0 THEN 0 - (IF 0 - m < 10 THEN 0 - m ELSE NiceLoop(0 - m, 0, 10))
  ELSE IF m < 10 THEN m
  ELSE NiceLoop(m, 0, 10)

\* d3.max(data.data, d => d.value) || 0
MaxValue(points) ==
  LET values == { points[i].f[kValue].n : i \in DOMAIN points }
  IN CHOOSE v \in values : \A w \in values : v >= w

\* The domain of the bar chart's y scale: [0, max value].nice().
YDomain(points) == << 0, NiceStop(MaxValue(points)) >>

\* y = d3.scaleLinear().domain(domain).range([height, 0]) applied to a value.
YScale(domain, value) == Linear(domain[1], domain[2], BarHeight, 0, value)

\* renderBarChart: one bar per data point, from y(value) down to the
\* baseline, filled by category.
renderBarChart(data, clientWidth) ==
  LET points == data.f[kData].a
      yDomain == YDomain(points)
      categories == Categories(points)
  IN Drawing(Min(960, clientWidth), data.f[kTitle].s,
             [i \in DOMAIN points |->
                [label |-> points[i].f[kLabel].s,
                 y |-> YScale(yDomain, points[i].f[kValue].n),
                 height |-> Minus(Frac(BarHeight, 1), YScale(yDomain, points[i].f[kValue].n)),
                 fill |-> ScaleOrdinal(categories, Palette, CategoryOf(points[i]))]])
     @@ [yDomain |-> yDomain, legend |-> Legend(categories)]

\* The effect of BarChart on [data].
BarChart(data, el, clientWidth) ==
  IF data.f[kData].a = <<>> THEN el ELSE renderBarChart(data, clientWidth)

RECURSIVE SumTo(_, _)
SumTo(values, n) == IF n = 0 THEN 0 ELSE SumTo(values, n - 1) + values[n]

\* d3.pie().value(d => d.value).sort(null): the arcs in input order from
\* angle 0, as fractions of the circle. Only the positive values are
\* summed and get an arc; k = sum ? 2 pi / sum : 0.
Pie(values) ==
  LET positive == [i \in DOMAIN values |-> IF values[i] > 0 THEN values[i] ELSE 0]
      sum == SumTo(positive, Len(positive))
  IN [i \in DOMAIN values |->
        IF sum = 0 THEN [startAngle |-> Frac(0, 1), span |-> Frac(0, 1)]
        ELSE [startAngle |-> Frac(SumTo(positive, i - 1), sum),
              span |-> Frac(positive[i], sum)]]

\* renderPieChart: one slice per data point.
renderPieChart(data, clientWidth) ==
  LET points == data.f[kData].a
      arcs == Pie([i \in DOMAIN points |-> points[i].f[kValue].n])
  IN Drawing(Min(960, clientWidth), data.f[kTitle].s,
             [i \in DOMAIN points |->
                [label |-> points[i].f[kLabel].s,
                 startAngle |-> arcs[i].startAngle,
                 span |-> arcs[i].span]])

\* The effect of PieChart on [data].
PieChart(data, el, clientWidth) ==
  IF data.f[kData].a = <<>> THEN el ELSE renderPieChart(data, clientWidth)

\* The effect of LineChart: the container is cleared and the chart drawn,
\* one dot per data point.
LineChart(data, el, clientWidth) ==
  LET points == data.f[kData].a
  IN Drawing(Max(clientWidth, 500), data.f[kTitle].s,
             [i \in DOMAIN points |-> [label |-> points[i].f[kLabel].s]])

\* A property of a JSON object as JavaScript reads it: its value, or
\* undefined when the value is no object or has no such key.
Undefined == [k |-> "undefined"]
Prop(value, key) ==
  IF value.k = "obj" /\ key \in DOMAIN value.f THEN value.f[key] ELSE Undefined

\* The text d3's .text(value) shows.
TextOf(value) ==
  CASE value.k = "str" -> value.s
    [] value.k \in {"undefined", "null"} -> <<>>
    [] OTHER -> Stringify(value)

\* forceLink's lookup of a link end: an end that is no object must be the
\* id of a node ("node not found" otherwise).
Resolves(nodes, end) ==
  \/ end.k \in {"obj", "arr", "null"}
  \/ \E i \in DOMAIN nodes : Prop(nodes[i], kId) = end

\* renderFlowChart: data.nodes.map and data.links.map throw a TypeError
\* when nodes or links is no array, forceLink.links throws for a link end
\* that names no node; otherwise one shape per node is drawn.
renderFlowChart(data, clientWidth) ==
  LET nodes == Prop(data, kNodes)
      links == Prop(data, kLinks)
  IN IF nodes.k # "arr" \/ links.k # "arr" THEN Thrown("TypeError")
     ELSE IF \E i \in DOMAIN links.a :
               \/ ~Resolves(nodes.a, Prop(links.a[i], kSource))
               \/ ~Resolves(nodes.a, Prop(links.a[i], kTarget))
          THEN Thrown("node not found")
     ELSE Drawing(Max(clientWidth, 500), TextOf(Prop(data, kTitle)),
                  [i \in DOMAIN nodes.a |-> [label |-> TextOf(Prop(nodes.a[i], kLabel))]])

\* The effect of FlowChart: the container is cleared and the chart drawn.
FlowChart(data, el, clientWidth) == renderFlowChart(data, clientWidth)

\* ChartRenderer: the component for the chart type, and its effect.
ChartRenderer(data, type, el, clientWidth) ==
  CASE type = "gantt" -> GanttChart(data, el, clientWidth)
    [] type = "bar" -> BarChart(data, el, clientWidth)
    [] type = "pie" -> PieChart(data, el, clientWidth)
    [] type = "line" -> LineChart(data, el, clientWidth)
    [] type = "flow" -> FlowChart(data, el, clientWidth)

\* Chart data as the generate route returns it, by chart type.
RenderNames == { <<"a">>, <<"b">> }

RenderTask(name, i) ==
  Obj(<< <<kId, JNum(i)>>, <<kName, JStr(name)>>, <<kStart, JStr(<<"s">>)>>,
         <<kEnd, JStr(<<"e">>)>> >>)

\* The text YYYY-MM-DD of a date.
Pad2(n) == IF n < 10 THEN <<"0">> \o NatText(n) ELSE NatText(n)
IsoDate(y, m, d) == NatText(y) \o <<"-">> \o Pad2(m) \o <<"-">> \o Pad2(d)

\* Start and end texts of a task: dates of March 2025, a task that ends
\* on the day it starts, one that ends before it starts, and an end that
\* is no date.
DateSpans ==
  { << IsoDate(2025, 3, 2), IsoDate(2025, 3, 10) >>,
    << IsoDate(2025, 3, 2), IsoDate(2025, 3, 24) >>,
    << IsoDate(2025, 3, 10), IsoDate(2025, 3, 24) >>,
    << IsoDate(2025, 3, 10), IsoDate(2025, 3, 10) >>,
    << IsoDate(2025, 3, 24), IsoDate(2025, 3, 2) >>,
    << IsoDate(2025, 3, 2), <<"e">> >> }

DatedTask(span, i) ==
  Obj(<< <<kId, JNum(i)>>, <<kName, JStr(NatText(i))>>, <<kStart, JStr(span[1])>>,
         <<kEnd, JStr(span[2])>> >>)

\* Category lists: n distinct categories in a row; the same with one of
\* them left out or empty; the same followed by one of them again.
CategoryName(i) == <<"c">> \o NatText(i)
CategoryRow(n) == [i \in 1..n |-> << <<kCategory, JStr(CategoryName(i))>> >>]
CategoryLists ==
  UNION { { CategoryRow(n) }
          \cup { [CategoryRow(n) EXCEPT ![j] = <<>>] : j \in 1..n }
          \cup { [CategoryRow(n) EXCEPT ![j] = << <<kCategory, JStr(<<>>)>> >>] : j \in 1..n }
          \cup { Append(CategoryRow(n), CategoryRow(n)[j]) : j \in 1..n } :
          n \in 1..MaxCategories }

\* Values of data points: negative, zero and positive ones.
PointValues == { 0 - 50, 0, 10, 25, 75 }

RenderPoints == { BarPoint(label, JNum(value)) : label \in RenderNames, value \in PointValues }

FlowNode(id) == Obj(<< <<kId, JStr(id)>>, <<kLabel, JStr(id)>> >>)

RenderSamples ==
  { [type |-> "gantt",
     data |-> Obj(<< <<kTitle, JStr(<<"G">>)>>,
                     <<kTasks, JArr([i \in DOMAIN names |-> RenderTask(names[i], i)])>> >>)] :
      names \in SeqsUpTo(RenderNames, MaxTasks) }
  \cup { [type |-> "gantt",
          data |-> Obj(<< <<kTitle, JStr(<<"G">>)>>,
                          <<kTasks, JArr([i \in DOMAIN spans |-> DatedTask(spans[i], i)])>> >>)] :
           spans \in SeqsUpTo(DateSpans, MaxTasks) }
  \cup { [type |-> "gantt",
          data |-> Obj(<< <<kTitle, JStr(<<"G">>)>>,
                          <<kTasks, JArr([i \in DOMAIN cats |->
                                            Obj(<< <<kId, JNum(i)>>, <<kName, JStr(NatText(i))>>,
                                                   <<kStart, JStr(IsoDate(2025, 3, 2))>>,
                                                   <<kEnd, JStr(IsoDate(2025, 3, 10))>> >>
                                                \o cats[i])])>> >>)] :
           cats \in CategoryLists }
  \cup { [type |-> "bar",
          data |-> Obj(<< <<kTitle, JStr(<<"C">>)>>,
                          <<kData, JArr([i \in DOMAIN cats |->
                                           Obj(<< <<kLabel, JStr(NatText(i))>>,
                                                  <<kValue, JNum(10)>> >> \o cats[i])])>> >>)] :
           cats \in CategoryLists }
  \cup { [type |-> t,
          data |-> Obj(<< <<kTitle, JStr(<<"C">>)>>, <<kData, JArr(points)>> >>)] :
           t \in {"bar", "pie", "line"}, points \in SeqsUpTo(RenderPoints, MaxItems) }
  \cup { [type |-> "flow",
          data |-> Obj(<< <<kTitle, JStr(<<"F">>)>>,
                          <<kNodes, JArr([i \in DOMAIN labels |-> FlowNode(labels[i])])>> >>
                          \o links)] :
           labels \in SeqsUpTo(RenderNames, MaxItems),
           links \in { <<>>, << <<kLinks, JArr(<<>>)>> >>,
                       << <<kLinks, JArr(<< Obj(<< <<kSource, JStr(<<"a">>)>>,
                                                   <<kTarget, JStr(<<"b">>)>> >>) >>)>> >> } }

ClientWidths == { 400, 800, 1200 }

\* Home keeps ChartRenderer mounted while a request is loading.
UnmountedWhileLoading_never == FALSE

\* Home renders ChartRenderer only when chartData && !isLoading: it is
\* unmounted while a request is loading, and every chart arrives at the
\* end of a request.
UnmountedWhileLoading == TRUE

RenderInit ==
  /\ mounted = None
  /\ container = EmptyContainer

\* A request has succeeded: ChartRenderer is rendered with its chart.
ChartAppears(sample, clientWidth) ==
  /\ UnmountedWhileLoading => mounted = None
  /\ mounted' = Some(sample)
  /\ container' =
       ChartRenderer(sample.data, sample.type,
                     IF mounted # None /\ mounted.v.type = sample.type
                     THEN container ELSE EmptyContainer,
                     clientWidth)
  /\ UNCHANGED exceptRender

\* A request starts or fails: ChartRenderer is no longer rendered.
ChartDisappears ==
  /\ mounted # None
  /\ mounted' = None
  /\ container' = EmptyContainer
  /\ UNCHANGED exceptRender

\* The parent of a mounted Gantt, bar or pie chart component passes it
\* other data: the effect on [data] runs again on the same container.
DataUpdates(sample, clientWidth) ==
  /\ mounted # None
  /\ mounted.v.type = sample.type
  /\ sample.type \in {"gantt", "bar", "pie"}
  /\ mounted' = Some(sample)
  /\ container' = ChartRenderer(sample.data, sample.type, container, clientWidth)
  /\ UNCHANGED exceptRender

(***************************************************************************)
(* The flow chart's force simulation and its drag handlers.                *)
(***************************************************************************)
\* d3.forceSimulation()'s settings, which renderFlowChart leaves as they
\* are: alpha 1, alphaMin 0.001, alphaDecay 1 - 0.001^(1/300) (0.0228),
\* alphaTarget 0. The energies are in thousandths.
Simulation == [alpha |-> 1000, alphaMin |-> 1, alphaDecay |-> << 228, 10000 >>,
               alphaTarget |-> 0]

FlowNodes == {"1", "2"}
Points == { [x |-> 0, y |-> 0], [x |-> 30, y |-> 40] }
Pointers == 1..MaxPointers
Null == [k |-> "null"]
Idle == [dragging |-> FALSE]

\* simulation.tick: alpha += (alphaTarget - alpha) * alphaDecay. In
\* thousandths the change is rounded away from zero, so that alpha moves
\* whenever it differs from its target, as the real number does.
NextAlpha(a, target) ==
  LET decay == Simulation.alphaDecay
      change(d) == (d * decay[1] + decay[2] - 1) \div decay[2]
  IN IF target >= a THEN a + change(target - a) ELSE a - change(a - target)

\* event.active: the gestures in progress, other than the one that starts
\* or ends.
Active(except) ==
  Cardinality({ p \in Pointers \ {except} : gestures[p].dragging })

FlowInit ==
  /\ alpha = Simulation.alpha
  /\ alphaTarget = Simulation.alphaTarget
  /\ ticking = TRUE
  /\ gestures = [p \in Pointers |-> Idle]
  /\ fixed = [n \in FlowNodes |-> Null]
  /\ lastDrag = None

\* The simulation's timer fires: step() ticks and stops the timer once
\* alpha is below alphaMin.
SimulationStep ==
  /\ ticking
  /\ alpha' = NextAlpha(alpha, alphaTarget)
  /\ ticking' = ~(alpha' < Simulation.alphaMin)
  /\ UNCHANGED << alphaTarget, gestures, fixed, lastDrag >>
  /\ UNCHANGED exceptFlow

\* dragended that leaves the target energy as it is.
EndTarget_kept(active) == alphaTarget

\* dragended: if (!event.active) simulation.alphaTarget(0)
EndTarget(active) == IF active = 0 THEN 0 ELSE alphaTarget

\* dragstarted(event, d): a pointer goes down on node d, which is at (x, y).
DragStarted(p, d, at) ==
  /\ ~gestures[p].dragging
  /\ IF Active(p) = 0
     THEN alphaTarget' = 300 /\ ticking' = TRUE
     ELSE UNCHANGED << alphaTarget, ticking >>
  /\ fixed' = [fixed EXCEPT ![d] = at]
  /\ gestures' = [gestures EXCEPT ![p] = [dragging |-> TRUE, subject |-> d]]
  /\ UNCHANGED << alpha, lastDrag >>
  /\ UNCHANGED exceptFlow

\* dragged(event, d): a pointer that drags node d moves to (event.x, event.y).
Dragged(p, at) ==
  /\ gestures[p].dragging
  /\ fixed' = [fixed EXCEPT ![gestures[p].subject] = at]
  /\ lastDrag' = Some([pointer |-> p, at |-> at])
  /\ UNCHANGED << alpha, alphaTarget, ticking, gestures >>
  /\ UNCHANGED exceptFlow

\* dragended(event, d): a pointer that drags node d goes up.
DragEnded(p) ==
  /\ gestures[p].dragging
  /\ alphaTarget' = EndTarget(Active(p))
  /\ fixed' = [fixed EXCEPT ![gestures[p].subject] = Null]
  /\ gestures' = [gestures EXCEPT ![p] = Idle]
  /\ UNCHANGED << alpha, ticking, lastDrag >>
  /\ UNCHANGED exceptFlow

\* The views of Home's visualization area that are rendered.
VisibleViews ==
  (IF error.set THEN {"error"} ELSE {})
  \cup (IF ~chartData.set /\ ~isLoading /\ ~error.set THEN {"placeholder"} ELSE {})
  \cup (IF isLoading THEN {"spinner"} ELSE {})
  \cup (IF chartData.set /\ ~isLoading THEN {"chart"} ELSE {})

\* The server is modelled under a page that stays as it was mounted.
Init ==
  /\ RouteInit /\ HookInit /\ selectedChartType = "gantt" /\ StoreInit /\ RenderInit
  /\ FlowInit

Next ==
  \/ \E b \in RequestBodies : PostGenerateChart(b)
  \/ \E o \in UpstreamOutcomes : FetchSettles(o)

Spec == Init /\ [][Next]_vars

\* The hook under a caller that may invoke generateChart at any time.
InitHook == RouteInit /\ apiKey /\ HookInit /\ StoreInit /\ RenderInit /\ FlowInit

NextHook ==
  \/ \E t \in ChartTypes : GenerateChart([typed |-> "Generate a chart"], t)
  \/ \E a \in Answers : CurrentSettles(a)
  \/ \E i \in 1..MaxRequests, a \in Answers : EarlierSettles(i, a)
  \/ ChartCodeEffect

SpecHook == InitHook /\ [][NextHook]_vars

\* The hook as the Home page drives it.
NextHome ==
  \/ \E p \in TypedPrompts : SetPrompt(p)
  \/ HandleClearPrompt
  \/ \E value \in {"gantt", "bar", "pie"} : HandleChartTypeChange(value)
  \/ HandleGenerateChart
  \/ \E a \in Answers : CurrentSettles(a)
  \/ ChartCodeEffect

SpecHome == InitHook /\ [][NextHome]_vars

\* The store under the save and list routes and other callers of createChart.
NextStore ==
  \/ \E b \in SaveBodies, at \in Clock : PostCharts(b, at)
  \/ \E i \in 1..MaxSaves : PostChartsResponds(i)
  \/ GetCharts
  \/ \E insertChart \in StoreInputs, at \in Clock : CreateChart(insertChart, at)

InitStore == Init /\ apiKey

SpecStore == InitStore /\ [][NextStore]_vars

\* The chart area as the page shows and hides charts.
NextRender ==
  \/ \E sample \in RenderSamples, clientWidth \in ClientWidths :
       ChartAppears(sample, clientWidth)
  \/ ChartDisappears

SpecRender == InitStore /\ [][NextRender]_vars

\* A Gantt, bar or pie chart component under a parent that mounts it,
\* passes it other data while it is mounted, and unmounts it.
NextComponent ==
  \/ \E sample \in RenderSamples, clientWidth \in ClientWidths :
       ChartAppears(sample, clientWidth)
  \/ ChartDisappears
  \/ \E sample \in RenderSamples, clientWidth \in ClientWidths :
       DataUpdates(sample, clientWidth)

SpecComponent == InitStore /\ [][NextComponent]_vars

\* A rendered flow chart: its simulation ticks and its nodes are dragged.
NextFlow ==
  \/ SimulationStep
  \/ \E p \in Pointers, d \in FlowNodes, at \in Points : DragStarted(p, d, at)
  \/ \E p \in Pointers, at \in Points : Dragged(p, at)
  \/ \E p \in Pointers : DragEnded(p)

SpecFlow == InitStore /\ [][NextFlow]_vars

\* The timer that drives the simulation fires as long as it runs.
SpecFlowFair == SpecFlow /\ WF_vars(SimulationStep)

(***************************************************************************)
(* Properties of the generate route (specification Spec).                  *)
(***************************************************************************)
\* The handler has answered a request after the extraction service sent a text.
TextAnswered == routePc = "done" /\ upstream.kind = "text"

\* ... and that text is the serialization of a sample value, fenced or not.
ValueAnswered == TextAnswered /\ upstream.of.src \in {"gantt", "value"}
AnsweredValue == SourceValue(upstream.of)
AnsweredText == CandidateText(upstream.of)

\* ... and the request was for a Gantt chart and the value a Gantt payload.
GanttAnswered ==
  /\ TextAnswered
  /\ validatedData.v.chartType = "gantt"
  /\ upstream.of.src = "gantt"
AnsweredCase == upstream.of.case

IsSchemaValidationError(r) ==
  /\ r.status = 400
  /\ "message" \in DOMAIN r.json
  /\ r.json.message = "Chart data validation error: "

IsRequestValidationError(r) ==
  /\ r.status = 400
  /\ "message" \in DOMAIN r.json
  /\ r.json.message = "Request validation error: "

IsMalformedResponse(r) ==
  /\ r.status = 400
  /\ "message" \in DOMAIN r.json
  /\ r.json.message \in { "Could not extract valid JSON from Gemini API response",
                          "Invalid JSON in Gemini API response" }

IsUpstreamUnavailable(r) ==
  /\ "message" \in DOMAIN r.json
  /\ r.json.message = "Failed to get response from Gemini API: "

\* C1: a Gantt payload that satisfies the schema and has no other fields is
\* returned deep-equal with status 200; a payload that satisfies the schema
\* except for one missing required field (title, tasks, or a task's id,
\* name, start or end) is answered with the schema validation error and no
\* chart data.
C1_GanttValidation ==
  GanttAnswered =>
    LET c == AnsweredCase
    IN /\ (FlawedPaths(c) = {} /\ ~HasExtraField(c))
            => responses = << Json(200, GanttValue(c)) >>
       /\ (Cardinality(MissingPaths(c)) = 1 /\ FlawedPaths(c) = MissingPaths(c))
            => /\ Len(responses) = 1
               /\ IsSchemaValidationError(responses[1])

C1_Witness ==
  /\ GanttAnswered
  /\ AnsweredCase = [title |-> "ok", tasks |-> "list", list |-> << "full", "min" >>]
  /\ responses = << Json(200, GanttValue(AnsweredCase)) >>

\* C2: a request with a prompt whose chartType is not one of gantt, bar,
\* pie, line, flow, sent to a server with an API key, is answered with the
\* unsupported-chart-type error, and the extraction service is not called.
C2_UnsupportedChartType ==
  ( /\ routePc = "done"
    /\ apiKey
    /\ DOMAIN body = {"prompt", "chartType"}
    /\ body.prompt # ""
    /\ body.chartType \notin ChartTypes )
  => /\ responses = << UnsupportedResponse(body.chartType) >>
     /\ fetchCalls = 0

Unrecoverable ==
  /\ TextAnswered
  /\ \/ ~JsonMatch(AnsweredText).found
     \/ ~JsonParse(JsonMatch(AnsweredText).text).ok

\* C4 as stated: when no JSON value can be recovered, the request ends in
\* the malformed-response error and that error carries the raw text.
C4_MalformedCarriesText ==
  Unrecoverable =>
    /\ Len(responses) = 1
    /\ IsMalformedResponse(responses[1])
    /\ responses[1].json.detail = TextDetail(AnsweredText)

\* C4 as amended: when no JSON value can be recovered, the request ends in
\* the malformed-response error, a fixed message with status 400 that
\* carries nothing of the raw text; never in a success or another error.
C4_MalformedFixedMessage ==
  Unrecoverable =>
    /\ Len(responses) = 1
    /\ IsMalformedResponse(responses[1])
    /\ responses[1].json.detail = NoDetail

C4_Witness ==
  /\ Unrecoverable
  /\ AnsweredText = << "{", "}", " ", "{", "}" >>
  /\ responses = << Json(400, Message("Invalid JSON in Gemini API response", NoDetail)) >>

\* The paths named by the message of a validation error.
NamedPaths(r) == { r.json.detail.fragments[i].path : i \in DOMAIN r.json.detail.fragments }

BarWithTwoFlaws == Obj(<< <<kData, JArr(<< BarPoint(<<"x">>, JStr(<<"1">>)) >>)>> >>)

C6_UpstreamUnavailable ==
  (routePc = "done" /\ upstream.kind \in {"reject", "status"})
  => /\ Len(responses) = 1
     /\ IsUpstreamUnavailable(responses[1])
     /\ upstream.kind = "status"
          => /\ responses[1].status = upstream.status
             /\ responses[1].json.detail = TextDetail(upstream.text)

\* C6 as amended: a non-2xx answer of the extraction service is answered
\* with the upstream-unavailable error, which has the upstream status and
\* carries the upstream body; a rejected call is answered with status 500
\* and the fixed message "Failed to process chart data", which carries
\* nothing of the upstream failure.
C6_UpstreamStatusOrGeneric ==
  /\ (routePc = "done" /\ upstream.kind = "status")
       => responses = << Json(upstream.status,
                              Message("Failed to get response from Gemini API: ",
                                      TextDetail(upstream.text))) >>
  /\ (routePc = "done" /\ upstream.kind = "reject")
       => responses = << Json(500, Message("Failed to process chart data", NoDetail)) >>

C6_Witness ==
  /\ routePc = "done"
  /\ upstream = [kind |-> "status", status |-> 503, text |-> <<"q","u","o","t","a">>]
  /\ responses[1].status = 503

(***************************************************************************)
(* Properties of the hook (specifications SpecHome and SpecHook).          *)
(***************************************************************************)
Success == chartData.set /\ chartType.set /\ ~error.set
Failed == error.set /\ ~chartData.set /\ ~chartType.set

\* C7: whatever the outcome of a generate request, generateChart records
\* the error state and the promise it returned to handleGenerateChart is
\* not rejected.
C7_NoRejectionToCaller ==
  (currentMutation.set /\ currentMutation.v.status = "error")
  => /\ Failed
     /\ currentMutation.v.promise # "rejected"

\* A step that starts a request, and a step in which an answer arrives.
Invoked == PendingMutations' > PendingMutations
Answered == PendingMutations' < PendingMutations

\* C8: an invocation of generateChart takes the hook from isLoading false
\* to isLoading true; the arrival of the answer takes it from isLoading
\* true to isLoading false and to exactly one of Success (chartData set,
\* chartType the requested type, error null) and Failed (error set,
\* chartData and chartType null).
C8_RequestLifecycle ==
  [][ /\ Invoked => (~isLoading /\ isLoading')
      /\ Answered =>
           /\ isLoading /\ ~isLoading'
           /\ Success' # Failed'
           /\ Success' => chartType' = Some(currentMutation.v.variables.chartType)
           /\ Success' <=> currentMutation'.v.status = "success" ]_vars

C8_Witness ==
  /\ currentMutation.set
  /\ currentMutation.v.status = "error"
  /\ Failed
  /\ ~isLoading
  /\ toast = "Chart generation failed"

Reflects(m) ==
  IF m.answer.kind = "ok"
  THEN /\ chartData = Some(m.answer.data)
       /\ chartType = Some(m.variables.chartType)
       /\ error = None
  ELSE /\ chartData = None
       /\ chartType = None
       /\ error.set

\* C10: once the answers of all the requests have arrived, overlapping
\* ones included, chartData, chartType and error are the outcome of the
\* request issued last.
C10_LastIssuedWins ==
  (currentMutation.set /\ PendingMutations = 0) => Reflects(currentMutation.v)

\* The observer's current mutation succeeded for a chart type other than gantt.
NonGanttSucceeded ==
  /\ currentMutation.set
  /\ currentMutation.v.status = "success"
  /\ currentMutation.v.variables.chartType # "gantt"

\* C11: in every state of the hook that its caller can observe, chartCode
\* is non-null only if chartType is gantt and chartData is non-null, and it
\* is then the code generated from the current chartData; after a
\* successful request of another type chartCode is null.
C11_CodeForGanttOnly ==
  /\ chartCode.set =>
       /\ chartType = Some("gantt")
       /\ chartData.set
       /\ chartCode = Some(generateChartCode(chartData.v))
  /\ NonGanttSucceeded => ~chartCode.set

\* C12: after a failed generate request, whatever the kind of its error,
\* the hook's error is a non-empty message and chartData and chartType are
\* null: no failure leaves error null or the previous chart in place.
C12_FailureSurfaced ==
  (currentMutation.set /\ currentMutation.v.status = "error")
  => /\ error.set
     /\ error.v.text # ""
     /\ chartData = None
     /\ chartType = None

\* A request fails with the schema validation error while a chart is shown.
C12_Witness ==
  /\ currentMutation.set
  /\ currentMutation.v.status = "error"
  /\ codeDeps[1].set
  /\ chartData = None
  /\ error = Some([status |-> 400, text |-> "Chart data validation error: "])

(***************************************************************************)
(* Properties of the chart store (specification SpecStore).                *)
(***************************************************************************)
\* The id of the chart the i-th createChart call returned.
CreatedId(i) == created[i].chart.id

\* C13: ids are assigned in call order as strictly increasing integers
\* starting at 1: each new chart's id is greater than every id assigned
\* before, no two stored charts share an id, and an id supplied in the
\* input never replaces the assigned one.
C13_IdsIncreaseFromOne ==
  /\ created # <<>> => CreatedId(1) = 1
  /\ \A i, j \in DOMAIN created : i < j => CreatedId(i) < CreatedId(j)
  /\ \A i, j \in DOMAIN charts :
       i # j => charts[i].value.id # charts[j].value.id
  /\ \A i \in DOMAIN charts : charts[i].value.id = charts[i].key

\* The second chart was created from an input that supplied the id 1.
C13_Witness ==
  /\ Len(created) = 2
  /\ created[2].chart.title = "with id"
  /\ CreatedId(2) = 2
  /\ Len(charts) = 2

\* C14: under any interleaving of save requests, every createChart call
\* returns a distinct id and every created chart is in the store
\* afterwards: no two calls read the same counter value and no created
\* chart is overwritten.
C14_SerializedIds ==
  /\ \A i, j \in DOMAIN created : i # j => CreatedId(i) # CreatedId(j)
  /\ \A i \in DOMAIN created : getChart(CreatedId(i)) = Some(created[i].chart)
  /\ Len(getAllCharts) = Len(created)

\* Two save requests are between their createChart call and their response.
C14_Witness ==
  /\ Len(created) = 2
  /\ ~created[1].responded
  /\ ~created[2].responded
  /\ getChart(1) # None
  /\ getChart(2) # None

\* C15: a stored chart is never mutated and never deleted: getChart of its
\* id returns in every later state the chart createChart returned, with the
\* same title, type, data, createdAt and userId, and getAllCharts keeps
\* containing it; getChart of an id never assigned returns undefined.
C15_NeverMutatedNorDeleted ==
  /\ [][ /\ \A id \in 1..(MaxSaves + 1) :
              getChart(id) # None => getChart(id)' = getChart(id)
         /\ \A i \in DOMAIN getAllCharts :
              \E j \in DOMAIN getAllCharts' : getAllCharts'[j] = getAllCharts[i]
         /\ \A i \in DOMAIN created :
              /\ i \in DOMAIN created'
              /\ created'[i].chart = created[i].chart
              /\ getChart(CreatedId(i))' = Some(created[i].chart) ]_vars
  /\ [](\A id \in 0..(MaxSaves + 1) :
          (\A i \in DOMAIN created : CreatedId(i) # id) => getChart(id) = None)

\* The list route answers with both charts after the first was created.
C15_Witness ==
  /\ Len(created) = 2
  /\ saveResponse = Some(Json(200, << created[1].chart, created[2].chart >>))
  /\ created[1].chart.createdAt < created[2].chart.createdAt
  /\ created[2].chart.userId = Some(5)

\* The body carries data that is malformed for its chart type.
Malformed(b) ==
  /\ "type" \in DOMAIN b
  /\ \E x \in SaveSamples : x.malformed /\ x.type = b.type /\ x.data = b.data

IsSaveValidationError(r) ==
  /\ r.set
  /\ r.v.status = 400
  /\ "message" \in DOMAIN r.v.json
  /\ r.v.json.message = "Chart validation error: "

RenderedSequence(sample) ==
  CASE sample.type = "gantt" -> sample.data.f[kTasks].a
    [] sample.type = "flow" -> sample.data.f[kNodes].a
    [] OTHER -> sample.data.f[kData].a

\* The chart has the shape of its type: a flow chart has nodes and links,
\* and its links join nodes of the chart.
WellShaped(sample) ==
  sample.type = "flow"
  => /\ kLinks \in DOMAIN sample.data.f
     /\ \A i \in DOMAIN sample.data.f[kLinks].a :
          /\ Resolves(sample.data.f[kNodes].a, Prop(sample.data.f[kLinks].a[i], kSource))
          /\ Resolves(sample.data.f[kNodes].a, Prop(sample.data.f[kLinks].a[i], kTarget))

C20_OneRowPerTask ==
  (mounted # None /\ mounted.v.type = "gantt" /\ container.drawn)
  => \A i, j \in DOMAIN container.marks :
       i < j => container.marks[i].y.num * container.marks[j].y.den
                  < container.marks[j].y.num * container.marks[i].y.den

(***************************************************************************)
(* Further properties of the generate route (specification Spec).          *)
(***************************************************************************)
HasEmptyDate(c) == \E i \in DOMAIN c.list : c.list[i] \in {"emptyStart", "emptyEnd"}

\* C18: a Gantt payload with a task whose start or end is the empty string
\* is answered with the schema validation error, while a payload whose
\* tasks have non-empty strings, dates or not, as start and end is accepted.
C18_EmptyDateRejected ==
  GanttAnswered =>
    LET c == AnsweredCase
    IN /\ HasEmptyDate(c)
            => /\ Len(responses) = 1
               /\ IsSchemaValidationError(responses[1])
       /\ (FlawedPaths(c) = {} /\ ~HasEmptyDate(c) /\ ~HasExtraField(c))
            => responses = << Json(200, GanttValue(c)) >>

\* C19: the steps of a generate request occur in one fixed order: the
\* extraction service is called at most once, and only after the request
\* validated and the key check passed; a success response is sent only
\* after the recovered value passed the schema of the requested type (or
\* the type is flow); exactly one response is sent per request, and none
\* before the extraction service answered once it was called.
C19_FixedOrder ==
  /\ fetchCalls \in {0, 1}
  /\ fetchCalls = 1 => (geminiRequestSchema(body).ok /\ validatedData.set /\ apiKey)
  /\ upstream.kind # "none" => fetchCalls = 1
  /\ routePc = "idle" => (responses = <<>> /\ fetchCalls = 0)
  /\ routePc = "fetch" => (responses = <<>> /\ fetchCalls = 1 /\ upstream.kind = "none")
  /\ routePc = "done" => Len(responses) = 1
  /\ (routePc = "done" /\ responses[1].status = 200)
       => /\ fetchCalls = 1
          /\ upstream.kind = "text"
          /\ jsonData.set
          /\ LET validated == ValidateChartData(validatedData.v.chartType, jsonData.v)
             IN validated.ok /\ responses[1].json = validated.data
          /\ GanttAnswered => FlawedPaths(AnsweredCase) = {}

\* A flow request ends in a success that passes the recovered value through.
C19_Witness ==
  /\ routePc = "done"
  /\ validatedData.set
  /\ validatedData.v.chartType = "flow"
  /\ fetchCalls = 1
  /\ jsonData.set
  /\ responses = << Json(200, jsonData.v) >>
  /\ ~SchemaParse(barChartDataSchema, jsonData.v).ok

(***************************************************************************)
(* Properties of the hook's chart state and of Home's visualization area.  *)
(***************************************************************************)
\* The mutations whose answer has not arrived.
PendingSet ==
  { inFlight[i] : i \in DOMAIN inFlight }
  \cup (IF isLoading THEN { currentMutation.v } ELSE {})

\* C27: in every state of the hook, overlapping requests included,
\* chartData and chartType are both null or both non-null, and error and
\* chartData are never both non-null; whenever a step sets chartData or
\* chartType to a non-null value, chartData is a payload of the answer that
\* arrived in that step and chartType the chart type of the request it
\* answers.
C27_ChartStateConsistent ==
  /\ [](/\ chartData.set <=> chartType.set
        /\ ~(error.set /\ chartData.set))
  /\ [][ (chartData'.set /\ << chartData', chartType' >> # << chartData, chartType >>)
         => /\ chartData'.v \in ChartPayloads
            /\ \E m \in PendingSet :
                 /\ m.variables.chartType = chartType'.v
                 /\ PendingMutations' = PendingMutations - 1 ]_vars

C27_Witness ==
  /\ chartData.set
  /\ chartType.set
  /\ Len(inFlight) > 0
  /\ currentMutation.v.status = "error"
  /\ chartType.v # currentMutation.v.variables.chartType

\* C30: in every state of the Home page reached through its Generate
\* action exactly one of the four views of the visualization area is
\* shown: the error message, the placeholder, the spinner or the chart.
C30_ExactlyOneView == Cardinality(VisibleViews) = 1

C30_Witness ==
  /\ isLoading
  /\ chartData.set
  /\ VisibleViews = {"spinner"}

(***************************************************************************)
(* Properties of the chart layouts (specifications SpecRender and          *)
(* SpecComponent).                                                         *)
(***************************************************************************)
\* A Gantt or bar chart is drawn.
CategoryChartDrawn ==
  mounted # None /\ mounted.v.type \in {"gantt", "bar"} /\ container.drawn

\* C21: in the Gantt and bar charts the k-th distinct category in
\* first-seen order (an item without a category, or with an empty one,
\* counting as 'Default') has palette colour k modulo 5, every item has the
\* colour of its category, and the legend has one entry per distinct
\* category, in first-seen order, with that category's colour.
C21_CategoryColours ==
  CategoryChartDrawn
  => LET items == RenderedSequence(mounted.v)
         cats == [i \in DOMAIN items |-> CategoryOf(items[i])]
         order == Distinct(cats)
         colour(k) == Palette[((k - 1) % 5) + 1]
     IN /\ \A i \in DOMAIN items :
             container.marks[i].fill = colour(IndexOf(order, cats[i]))
        /\ Len(container.legend) = Len(order)
        /\ \A k \in DOMAIN order :
             /\ container.legend[k].text = order[k]
             /\ container.legend[k].fill = colour(k)

\* A chart with more categories than the palette has colours, one item
\* without a category among them.
C21_Witness ==
  /\ CategoryChartDrawn
  /\ Len(container.legend) = 6
  /\ container.legend[6].fill = Palette[1]
  /\ \E i \in DOMAIN RenderedSequence(mounted.v) :
       kCategory \notin DOMAIN RenderedSequence(mounted.v)[i].f
  /\ \E k \in 1..6 : container.legend[k].text = DefaultCategory

PointValue(sample, i) == sample.data.f[kData].a[i].f[kValue].n

\* C22: for every non-empty pie data sequence each slice's span is the
\* circle times value / sum of all values, the slices follow one another
\* in input order from angle 0, and the spans add up to the full circle.
C22_PieSpans ==
  (mounted # None /\ mounted.v.type = "pie" /\ container.drawn)
  => LET marks == container.marks
         values == [i \in DOMAIN marks |-> PointValue(mounted.v, i)]
         total == SumTo(values, Len(values))
         den == marks[1].span.den
     IN /\ \A i \in DOMAIN marks :
             /\ marks[i].span.den = den /\ marks[i].startAngle.den = den
             /\ marks[i].span.num * total = values[i] * den
             /\ marks[i].startAngle.num =
                  SumTo([j \in DOMAIN marks |-> marks[j].span.num], i - 1)
        /\ SumTo([j \in DOMAIN marks |-> marks[j].span.num], Len(marks)) = den

Less(a, b) == a.num * b.den < b.num * a.den

\* C23: for every non-empty bar data sequence the y scale's domain is
\* [0, M] with M at least the maximum value, a larger value has a smaller
\* pixel-y, and no bar's top lies below the baseline.
C23_BarScale ==
  (mounted # None /\ mounted.v.type = "bar" /\ container.drawn)
  => LET marks == container.marks
     IN /\ container.yDomain[1] = 0
        /\ \A i \in DOMAIN marks : container.yDomain[2] >= PointValue(mounted.v, i)
        /\ \A i, j \in DOMAIN marks :
             PointValue(mounted.v, i) < PointValue(mounted.v, j)
             => Less(marks[j].y, marks[i].y)
        /\ \A i \in DOMAIN marks : ~Less(Frac(BarHeight, 1), marks[i].y)

\* The start and end dates of the mounted Gantt chart's tasks.
TaskStart(i) == NewDate(mounted.v.data.f[kTasks].a[i].f[kStart].s)
TaskEnd(i) == NewDate(mounted.v.data.f[kTasks].a[i].f[kEnd].s)

\* A Gantt chart all of whose dates are parseable is drawn.
DatedGanttDrawn ==
  /\ mounted # None
  /\ mounted.v.type = "gantt"
  /\ container.drawn
  /\ \A i \in DOMAIN container.marks : TaskStart(i).valid /\ TaskEnd(i).valid

\* C24: for every non-empty Gantt task list with parseable dates the time
\* scale's domain is exactly [minimum start, maximum end] over the tasks,
\* and each bar spans from timeScale(start) to timeScale(end) of its task.
C24_TimeDomain ==
  DatedGanttDrawn
  => LET marks == container.marks
         lo == CHOOSE d \in { TaskStart(i).day : i \in DOMAIN marks } :
                 \A i \in DOMAIN marks : d <= TaskStart(i).day
         hi == CHOOSE d \in { TaskEnd(i).day : i \in DOMAIN marks } :
                 \A i \in DOMAIN marks : d >= TaskEnd(i).day
         width == container.width - 160 - 120
     IN /\ container.xDomain = << lo, hi >>
        /\ \A i \in DOMAIN marks :
             /\ marks[i].x = Linear(lo, hi, 0, width, TaskStart(i).day)
             /\ marks[i].width = Minus(Linear(lo, hi, 0, width, TaskEnd(i).day), marks[i].x)

\* Tasks from 2025-03-02 to 2025-03-10 and from 2025-03-10 to 2025-03-24:
\* the domain is [2025-03-02, 2025-03-24].
C24_Witness ==
  /\ DatedGanttDrawn
  /\ Len(container.marks) = 2
  /\ TaskEnd(1) = TaskStart(2)
  /\ container.xDomain = << DaysFromCivil(2025, 3, 2), DaysFromCivil(2025, 3, 24) >>
  /\ container.marks[2].x.num > 0

\* C29: a mounted Gantt, bar or pie chart component shows only its
\* current data: with no tasks or data points the container holds no
\* chart, otherwise exactly the chart drawn from the current data.
C29_OnlyCurrentData ==
  (mounted # None /\ mounted.v.type \in {"gantt", "bar", "pie"})
  => IF RenderedSequence(mounted.v) = <<>>
     THEN ~container.drawn
     ELSE \E clientWidth \in ClientWidths :
            container = ChartRenderer(mounted.v.data, mounted.v.type, EmptyContainer,
                                      clientWidth)

(***************************************************************************)
(* The generate route's answers under the chart renderer.                  *)
(***************************************************************************)
\* The request was answered with status 200.
SucceededWith200 == routePc = "done" /\ responses[1].status = 200

\* C28: every payload the generate route returns with status 200 for a
\* chart type is rendered by ChartRenderer with that chart type without an
\* exception, for each of the five types; for flow this includes payloads
\* without a nodes or links array and links that name no node.
C28_OkPayloadRenders ==
  SucceededWith200
  => \A clientWidth \in ClientWidths :
       ~Threw(ChartRenderer(responses[1].json, validatedData.v.chartType,
                            EmptyContainer, clientWidth))

(***************************************************************************)
(* Properties of the flow chart's drags and simulation (specifications     *)
(* SpecFlow and SpecFlowFair).                                             *)
(***************************************************************************)
\* Some pointer drags the node.
Dragging(d) == \E p \in Pointers : gestures[p].dragging /\ gestures[p].subject = d
AnyDrag == \E p \in Pointers : gestures[p].dragging

\* C25: a node is pinned (its fixed position is set) from the start of a
\* drag until the end of that drag and is released (null) when the drag
\* ends; on every drag event its fixed position is the pointer's; a node
\* that is not being dragged is never pinned.
C25_PinnedWhileDragged ==
  /\ [](\A d \in FlowNodes : Dragging(d) <=> fixed[d] # Null)
  /\ [][ lastDrag' # lastDrag
         => fixed'[gestures[lastDrag'.v.pointer].subject] = lastDrag'.v.at ]_vars

\* C26: the target energy is raised (0.3) exactly while at least one drag
\* is active and is 0 otherwise; while it is 0 every tick lowers the
\* energy, and with no drag in progress the simulation stops ticking.
C26_SimulationStops ==
  /\ [](alphaTarget = (IF AnyDrag THEN 300 ELSE 0))
  /\ [][ (alphaTarget = 0 /\ alpha' # alpha) => alpha' < alpha ]_vars
  /\ [](~ticking => alpha < Simulation.alphaMin)
  /\ (~AnyDrag) ~> (~ticking \/ AnyDrag)

\* The simulation has stopped again after a drag raised its energy.
C26_Witness ==
  /\ ~ticking
  /\ ~AnyDrag
  /\ alphaTarget = 0
  /\ alpha < Simulation.alphaMin
  /\ \E d \in FlowNodes : fixed[d] = Null

====
